---- MODULE Spec2Model ----
(***************************************************************************)
(* A model of the DXF -> IFC exporters of BubbleBIM:                       *)
(*   - direct_ifc_from_dxf.py  (DirectIfcExporter, main)                   *)
(*   - ifc_direct_exporter.py  (IFCDirectExporter)                         *)
(*   - ifc_integration.py      (convert_multiple_dxf_to_single_ifc)        *)
(*                                                                         *)
(* Strings are sequences of one-character strings, so that lower(),        *)
(* substring tests, os.path.splitext and the regular expressions of the    *)
(* code are computed and not assumed.  Decimal numbers are exact: a        *)
(* number is a pair <<m, f>> standing for m / 10^f with no trailing zero   *)
(* in the fraction.                                                        *)
(***************************************************************************)
EXTENDS Integers, Sequences, FiniteSets, TLC

VARIABLES
    prog,           \* the program run: "direct" (direct_ifc_from_dxf.py main) or
                    \* "integration" (ifc_integration.py convert_multiple_dxf_to_single_ifc)
    argv,           \* the input file paths, in the order given
    pc,             \* the position of the program
    idx,            \* the index of the loop over the files / the processed data
    exporter,       \* the exporter object (DirectIfcExporter or IFCDirectExporter)
    processed_data, \* integration: the list processed_data
    log,            \* for each input file met, in order: the outcome, the path, the
                    \* content read and the storey created (0 when none)
    exit_status,    \* the exit status, -1 while running
    IFC_AVAILABLE,  \* whether the import of ifcopenshell (direct) or of the
                    \* converter modules (integration) succeeded
    output,         \* the output document: "none" until model.write is called,
                    \* then "written", or "failed" when the write raised
    zident,         \* SpecZ: the identifier handed to extract_global_z_from_filename
    zpc,            \* SpecZ: "call" before the call, "ret" after it
    zres,           \* SpecZ: the returned value (a decimal <<m, f>>)
    dent,           \* SpecD: the DXF entity handed to the decoder and the classifier
    dunit,          \* SpecD: the unit system of the exporter
    dpc,            \* SpecD: "call", then "decoded", "typed", "processed"
    dret,           \* SpecD: what the calls returned: [props, ifc_type, exporter]
    groom,          \* SpecG: the room of the diagram: its edges, levels and offset
    gpc,            \* SpecG: "call" before the call, "ret" after it
    gout,           \* SpecG: what the call produced: [points, spaces, storeys]
    wfiles,         \* SpecW: the mtime of every Diagram.xml path, 0 when there is no file
    wclock,         \* SpecW: the mtime the next change of a file gives it
    file_timestamps,    \* SpecW: the stored snapshot of watch_folder
    current_timestamps, \* SpecW: the snapshot of the poll in progress
    wpc,            \* SpecW: the position of watch_folder
    wprocessed,     \* SpecW: the files as the last scan_and_import found them
    wunseen,        \* SpecW: a file has changed and no re-processing pass has run since
    wdeleted        \* SpecW: a file has been deleted

xvars == <<prog, argv, pc, idx, exporter, processed_data, log, exit_status,
           IFC_AVAILABLE, output>>

zvars == <<zident, zpc, zres>>

dvars == <<dent, dunit, dpc, dret>>

gvars == <<groom, gpc, gout>>

wvars == <<wfiles, wclock, file_timestamps, current_timestamps, wpc, wprocessed,
           wunseen, wdeleted>>

vars == <<xvars, zvars, dvars, gvars, wvars>>

----------------------------------------------------------------------------
(* Characters and decimal numbers                                          *)

Digits == {"0", "1", "2", "3", "4", "5", "6", "7", "8", "9"}

DigitVal(c) ==
    CASE c = "0" -> 0 [] c = "1" -> 1 [] c = "2" -> 2 [] c = "3" -> 3
      [] c = "4" -> 4 [] c = "5" -> 5 [] c = "6" -> 6 [] c = "7" -> 7
      [] c = "8" -> 8 [] c = "9" -> 9

\* the integer written by a sequence of digits ("" is 0)
RECURSIVE DigitsVal(_)
DigitsVal(ds) ==
    IF ds = <<>> THEN 0
    ELSE 10 * DigitsVal(SubSeq(ds, 1, Len(ds) - 1)) + DigitVal(ds[Len(ds)])

\* a digit sequence without its trailing zeros
RECURSIVE StripZeros(_)
StripZeros(ds) ==
    IF ds # <<>> /\ ds[Len(ds)] = "0" THEN StripZeros(SubSeq(ds, 1, Len(ds) - 1))
    ELSE ds

\* index of the first occurrence of character c in s, 0 when absent
IndexOf(s, c) ==
    IF \E i \in 1..Len(s) : s[i] = c
    THEN CHOOSE i \in 1..Len(s) : s[i] = c /\ \A j \in 1..(i - 1) : s[j] # c
    ELSE 0

\* index of the last occurrence of character c in s, 0 when absent
LastIndexOf(s, c) ==
    IF \E i \in 1..Len(s) : s[i] = c
    THEN CHOOSE i \in 1..Len(s) : s[i] = c /\ \A j \in (i + 1)..Len(s) : s[j] # c
    ELSE 0

ZeroF == <<0, 0>>

\* float(g) for a text g of the shape -?digits[.digits*]: the exact decimal
\* <<m, f>> = m / 10^f, the fraction stripped of trailing zeros (-0 is 0)
ParseFloat(g) ==
    LET neg  == g # <<>> /\ g[1] = "-"
        body == IF neg THEN SubSeq(g, 2, Len(g)) ELSE g
        dot  == IndexOf(body, ".")
        ip   == IF dot = 0 THEN body ELSE SubSeq(body, 1, dot - 1)
        fp   == IF dot = 0 THEN <<>> ELSE StripZeros(SubSeq(body, dot + 1, Len(body)))
        m    == DigitsVal(ip \o fp)
    IN  <<IF neg THEN 0 - m ELSE m, Len(fp)>>

----------------------------------------------------------------------------
(* os.path.basename, os.path.splitext                                      *)

Basename(p) == SubSeq(p, LastIndexOf(p, "/") + 1, Len(p))

\* splitext(b)[0] of a name without directory: cut at the last dot, unless
\* only dots precede it
SplitExtRoot(b) ==
    LET d == LastIndexOf(b, ".")
    IN  IF d > 0 /\ \E i \in 1..(d - 1) : b[i] # "."
        THEN SubSeq(b, 1, d - 1)
        ELSE b

----------------------------------------------------------------------------
(* The regular expressions of extract_global_z_from_filename, matched as   *)
(* re.search matches them: leftmost start, greedy quantifiers, backtracking*)
(* An atom is [cls, min, many]: at least min characters of a class, and    *)
(* at most one unless many.                                                *)

InClass(c, cls) ==
    CASE cls = "sep"   -> c \in {".", "_"}
      [] cls = "us"    -> c = "_"
      [] cls = "dot"   -> c = "."
      [] cls = "minus" -> c = "-"
      [] cls = "digit" -> c \in Digits

One(cls)  == [cls |-> cls,  min |-> 1, many |-> FALSE]
Opt(cls)  == [cls |-> cls,  min |-> 0, many |-> FALSE]
Plus(cls) == [cls |-> cls,  min |-> 1, many |-> TRUE]
Star(cls) == [cls |-> cls,  min |-> 0, many |-> TRUE]
Eol       == [cls |-> "eol", min |-> 0, many |-> FALSE]

\* patterns[k]: the atoms, and the atoms the capture group spans
Patterns == <<
    [atoms |-> <<One("sep"), Opt("minus"), Plus("digit"), One("dot"), Plus("digit"), One("sep")>>,
     gfrom |-> 2, gto |-> 5],
    [atoms |-> <<One("sep"), Opt("minus"), Plus("digit"), Opt("dot"), Star("digit"), One("sep")>>,
     gfrom |-> 2, gto |-> 5],
    [atoms |-> <<One("us"), Opt("minus"), Plus("digit"), One("dot"), Plus("digit"), Eol>>,
     gfrom |-> 2, gto |-> 5],
    [atoms |-> <<One("us"), Opt("minus"), Plus("digit"), Eol>>,
     gfrom |-> 2, gto |-> 3] >>

NoMatch == <<-1>>

\* how many characters of class cls follow position pos (one at most unless many)
RECURSIVE Run(_, _, _, _)
Run(s, pos, cls, many) ==
    IF pos > Len(s) \/ ~InClass(s[pos], cls) THEN 0
    ELSE IF many THEN 1 + Run(s, pos + 1, cls, many) ELSE 1

\* MatchFrom: the atoms from index i on matched at position pos; the result
\* is the sequence of positions reached after each atom, or NoMatch.
\* TryCount: atom i taking c characters, then fewer (backtracking).
RECURSIVE MatchFrom(_, _, _, _), TryCount(_, _, _, _, _)
MatchFrom(atoms, i, s, pos) ==
    IF i > Len(atoms) THEN <<>>
    ELSE IF atoms[i].cls = "eol"
         THEN IF pos = Len(s) + 1
              THEN LET r == MatchFrom(atoms, i + 1, s, pos)
                   IN  IF r = NoMatch THEN NoMatch ELSE <<pos>> \o r
              ELSE NoMatch
         ELSE TryCount(atoms, i, s, pos, Run(s, pos, atoms[i].cls, atoms[i].many))

TryCount(atoms, i, s, pos, c) ==
    IF c < atoms[i].min THEN NoMatch
    ELSE LET r == MatchFrom(atoms, i + 1, s, pos + c)
         IN  IF r # NoMatch THEN <<pos + c>> \o r
             ELSE TryCount(atoms, i, s, pos, c - 1)

\* re.search(pattern, s): [found, group], group being match.group(1)
RECURSIVE SearchFrom(_, _, _)
SearchFrom(p, s, start) ==
    IF start > Len(s) + 1 THEN [found |-> FALSE, group |-> <<>>]
    ELSE LET r == MatchFrom(p.atoms, 1, s, start)
         IN  IF r = NoMatch THEN SearchFrom(p, s, start + 1)
             ELSE LET ends == <<start>> \o r   \* ends[i]: where atom i begins
                  IN  [found |-> TRUE,
                       group |-> SubSeq(s, ends[p.gfrom], ends[p.gto + 1] - 1)]

Search(p, s) == SearchFrom(p, s, 1)

----------------------------------------------------------------------------
(* DirectIfcExporter.extract_global_z_from_filename                        *)

\* (mutant) the loop that does not return at the first match: the last
\* matching pattern decides
RECURSIVE TryPatternsLastWins(_, _)
TryPatternsLastWins(k, basename) ==
    IF k > Len(Patterns) THEN ZeroF
    ELSE LET match == Search(Patterns[k], basename)
             rest  == TryPatternsLastWins(k + 1, basename)
         IN  IF match.found /\ rest = ZeroF THEN ParseFloat(match.group) ELSE rest

\* the for loop over the patterns, from pattern k on: the first match returns
RECURSIVE TryPatterns(_, _)
TryPatterns(k, basename) ==
    IF k > Len(Patterns) THEN ZeroF
    ELSE LET match == Search(Patterns[k], basename)
         IN  IF match.found THEN ParseFloat(match.group)
             ELSE TryPatterns(k + 1, basename)

ExtractGlobalZ(filename) == TryPatterns(1, SplitExtRoot(Basename(filename)))

----------------------------------------------------------------------------
(* Exact decimal arithmetic on <<m, f>> = m / 10^f.  The code computes in  *)
(* binary floating point; the model keeps the decimal results exact.       *)

RECURSIVE Pow10(_)
Pow10(n) == IF n = 0 THEN 1 ELSE 10 * Pow10(n - 1)

RECURSIVE DecNorm(_)
DecNorm(d) ==
    IF d[2] > 0 /\ d[1] % 10 = 0 THEN DecNorm(<<d[1] \div 10, d[2] - 1>>) ELSE d

MaxOf(a, b) == IF a >= b THEN a ELSE b

\* the numerator of d at scale f >= d[2]
AtScale(d, f) == d[1] * Pow10(f - d[2])

DecMul(a, b) == DecNorm(<<a[1] * b[1], a[2] + b[2]>>)

DecAdd(a, b) ==
    LET f == MaxOf(a[2], b[2]) IN DecNorm(<<AtScale(a, f) + AtScale(b, f), f>>)

DecSub(a, b) == DecAdd(a, <<0 - b[1], b[2]>>)

DecAbs(a) == <<IF a[1] < 0 THEN 0 - a[1] ELSE a[1], a[2]>>

DecLess(a, b) ==
    LET f == MaxOf(a[2], b[2]) IN AtScale(a, f) < AtScale(b, f)

DecLeq(a, b) == ~DecLess(b, a)

----------------------------------------------------------------------------
(* Text helpers: str.lower, `in`, startswith, split, strip, float(), int() *)

UpperCase == <<"A", "B", "C", "D", "E", "F", "G", "H", "I", "J", "K", "L", "M",
               "N", "O", "P", "Q", "R", "S", "T", "U", "V", "W", "X", "Y", "Z">>

LowerCase == <<"a", "b", "c", "d", "e", "f", "g", "h", "i", "j", "k", "l", "m",
               "n", "o", "p", "q", "r", "s", "t", "u", "v", "w", "x", "y", "z">>

ToLower(c) ==
    IF \E i \in 1..Len(UpperCase) : UpperCase[i] = c
    THEN LowerCase[CHOOSE i \in 1..Len(UpperCase) : UpperCase[i] = c]
    ELSE c

Lower(s) == [i \in 1..Len(s) |-> ToLower(s[i])]

\* key in s
Contains(key, s) ==
    \E i \in 1..(Len(s) - Len(key) + 1) : SubSeq(s, i, i + Len(key) - 1) = key

StartsWith(s, prefix) ==
    Len(s) >= Len(prefix) /\ SubSeq(s, 1, Len(prefix)) = prefix

\* s.split(":")[1]: the text between the first colon and the next one
SplitColon1(s) ==
    LET c1   == IndexOf(s, ":")
        rest == SubSeq(s, c1 + 1, Len(s))
        c2   == IndexOf(rest, ":")
    IN  IF c2 = 0 THEN rest ELSE SubSeq(rest, 1, c2 - 1)

\* s.split(":", 1)[1]: the text after the first colon
AfterColon(s) == SubSeq(s, IndexOf(s, ":") + 1, Len(s))

RECURSIVE Strip(_)
Strip(s) ==
    IF s # <<>> /\ s[1] = " " THEN Strip(Tail(s))
    ELSE IF s # <<>> /\ s[Len(s)] = " " THEN Strip(SubSeq(s, 1, Len(s) - 1))
    ELSE s

AllDigits(g) == g # <<>> /\ \A i \in 1..Len(g) : g[i] \in Digits

\* float(text) succeeds: [-]digits[.[digits]] or [-].digits, blanks around
FloatOk(text) ==
    LET t    == Strip(text)
        body == IF t # <<>> /\ t[1] \in {"-", "+"} THEN Tail(t) ELSE t
        dot  == IndexOf(body, ".")
        ip   == IF dot = 0 THEN body ELSE SubSeq(body, 1, dot - 1)
        fp   == IF dot = 0 THEN <<>> ELSE SubSeq(body, dot + 1, Len(body))
    IN  /\ ip \o fp # <<>>
        /\ \A i \in 1..Len(ip \o fp) : (ip \o fp)[i] \in Digits

FloatOf(text) ==
    LET t == Strip(text)
    IN  ParseFloat(IF t # <<>> /\ t[1] = "+" THEN Tail(t) ELSE t)

\* int(text) succeeds: [-]digits, blanks around
IntOk(text) ==
    LET t    == Strip(text)
        body == IF t # <<>> /\ t[1] \in {"-", "+"} THEN Tail(t) ELSE t
    IN  AllDigits(body)

IntOf(text) == FloatOf(text)[1]

----------------------------------------------------------------------------
(* DirectIfcExporter._determine_ifc_type                                   *)
(* The letters a-breve, a-circumflex, s-comma and t-comma of the Romanian  *)
(* synonyms are the characters "a_breve", "a_circ", "s_comma", "t_comma".  *)

layer_mapping == <<
    [key |-> <<"w", "a", "l", "l">>, ifc_type |-> "IfcWall"],
    [key |-> <<"w", "a", "l", "l", "s">>, ifc_type |-> "IfcWall"],
    [key |-> <<"m", "u", "r", "i">>, ifc_type |-> "IfcWall"],
    [key |-> <<"c", "o", "l", "u", "m", "n">>, ifc_type |-> "IfcColumn"],
    [key |-> <<"c", "o", "l", "u", "m", "n", "s">>, ifc_type |-> "IfcColumn"],
    [key |-> <<"s", "t", "a_circ", "l", "p", "i">>, ifc_type |-> "IfcColumn"],
    [key |-> <<"b", "e", "a", "m">>, ifc_type |-> "IfcBeam"],
    [key |-> <<"b", "e", "a", "m", "s">>, ifc_type |-> "IfcBeam"],
    [key |-> <<"g", "r", "i", "n", "z", "i">>, ifc_type |-> "IfcBeam"],
    [key |-> <<"s", "l", "a", "b">>, ifc_type |-> "IfcSlab"],
    [key |-> <<"s", "l", "a", "b", "s">>, ifc_type |-> "IfcSlab"],
    [key |-> <<"p", "l", "a_breve", "c", "i">>, ifc_type |-> "IfcSlab"],
    [key |-> <<"d", "o", "o", "r">>, ifc_type |-> "IfcDoor"],
    [key |-> <<"d", "o", "o", "r", "s">>, ifc_type |-> "IfcDoor"],
    [key |-> <<"u", "s_comma", "i">>, ifc_type |-> "IfcDoor"],
    [key |-> <<"w", "i", "n", "d", "o", "w">>, ifc_type |-> "IfcWindow"],
    [key |-> <<"w", "i", "n", "d", "o", "w", "s">>, ifc_type |-> "IfcWindow"],
    [key |-> <<"f", "e", "r", "e", "s", "t", "r", "e">>, ifc_type |-> "IfcWindow"],
    [key |-> <<"s", "p", "a", "c", "e">>, ifc_type |-> "IfcSpace"],
    [key |-> <<"s", "p", "a", "c", "e", "s">>, ifc_type |-> "IfcSpace"],
    [key |-> <<"s", "p", "a", "t_comma", "i", "i">>, ifc_type |-> "IfcSpace"],
    [key |-> <<"i", "f", "c", "s", "p", "a", "c", "e">>, ifc_type |-> "IfcSpace"],
    [key |-> <<"r", "o", "o", "f">>, ifc_type |-> "IfcRoof"],
    [key |-> <<"a", "c", "o", "p", "e", "r", "i", "s">>, ifc_type |-> "IfcRoof"] >>

\* (mutant) the loop that does not return at the first key found: the last
\* entry whose key is in the layer decides
RECURSIVE DetermineFromLast(_, _, _)
DetermineFromLast(i, layer_lower, entity_type) ==
    LET hits == {j \in i..Len(layer_mapping) : Contains(layer_mapping[j].key, layer_lower)}
    IN  IF hits # {}
        THEN layer_mapping[CHOOSE j \in hits : \A h \in hits : h <= j].ifc_type
        ELSE IF entity_type \in {"TEXT", "MTEXT", "DIMENSION"} THEN "SKIP"
        ELSE "IfcBuildingElementProxy"

\* the loop over layer_mapping.items(), from entry i on: the first key found
\* in the lower-cased layer decides; then the kind of the DXF entity
RECURSIVE DetermineFrom(_, _, _)
DetermineFrom(i, layer_lower, entity_type) ==
    IF i > Len(layer_mapping)
    THEN IF entity_type \in {"LWPOLYLINE", "POLYLINE", "LINE", "ARC", "CIRCLE"}
         THEN "IfcBuildingElementProxy"
         ELSE IF entity_type \in {"3DFACE", "3DSOLID", "MESH"}
         THEN "IfcBuildingElementProxy"
         ELSE IF entity_type \in {"TEXT", "MTEXT", "DIMENSION"}
         THEN "SKIP"
         ELSE "IfcBuildingElementProxy"
    ELSE IF Contains(layer_mapping[i].key, layer_lower)
         THEN layer_mapping[i].ifc_type
         ELSE DetermineFrom(i + 1, layer_lower, entity_type)

DetermineIfcType(entity, layer) == DetermineFrom(1, Lower(layer), entity.dxftype)

----------------------------------------------------------------------------
(* DXF entities as ezdxf hands them over.  An entity is a record           *)
(*   dxftype   "LWPOLYLINE", "LINE", "CIRCLE", "ARC", "TEXT", ...          *)
(*   layer     its layer name (text)                                       *)
(*   handle    its handle (text)                                           *)
(*   has_xdata, appids, xdata   the extended data: xdata is a sequence of  *)
(*             [app, items], items a sequence of XItem                     *)
(*   points    the vertices of a polyline, the two ends of a line          *)
(* An XItem is [code, s, r, n, numeric]: s the value of a string item      *)
(* (1000), r the value of a real item (1040) which float() accepts iff     *)
(* numeric, n the value of an integer item (1071).                         *)

XStr(text)  == [code |-> 1000, s |-> text, r |-> ZeroF, n |-> 0, numeric |-> FALSE]
XReal(d)    == [code |-> 1040, s |-> <<>>, r |-> d,     n |-> 0, numeric |-> TRUE]
XRealBad    == [code |-> 1040, s |-> <<>>, r |-> ZeroF, n |-> 0, numeric |-> FALSE]
XInt(k)     == [code |-> 1071, s |-> <<>>, r |-> ZeroF, n |-> k, numeric |-> TRUE]

(* A Python dict is a sequence of [key, val] in insertion order.  A key of *)
(* the properties dict is [k, app]: the text k, and for the keys           *)
(* xdata_<app_id> the text "xdata_" with the application identifier.       *)
(* A value is [t, f, n, s]: a float f, an int n or a str s.                *)

PKey(text)         == [k |-> text, app |-> ""]
PKeyApp(text, app) == [k |-> text, app |-> app]

FloatVal(d) == [t |-> "float", f |-> d,     n |-> 0, s |-> <<>>]
IntVal(k)   == [t |-> "int",   f |-> ZeroF, n |-> k, s |-> <<>>]
StrVal(x)   == [t |-> "str",   f |-> ZeroF, n |-> 0, s |-> x]

DictHas(d, key) == \E i \in 1..Len(d) : d[i].key = key

DictGet(d, key) == d[CHOOSE i \in 1..Len(d) : d[i].key = key].val

\* d[key] = val
DictSet(d, key, val) ==
    IF DictHas(d, key)
    THEN [i \in 1..Len(d) |-> IF d[i].key = key THEN [key |-> key, val |-> val] ELSE d[i]]
    ELSE Append(d, [key |-> key, val |-> val])

\* d.get(key, default)
DictGetOr(d, key, default) == IF DictHas(d, key) THEN DictGet(d, key) ELSE default

K_height     == PKey(<<"h", "e", "i", "g", "h", "t">>)
K_solid      == PKey(<<"s", "o", "l", "i", "d">>)
K_name       == PKey(<<"n", "a", "m", "e">>)
K_z_relative == PKey(<<"z", "_", "r", "e", "l", "a", "t", "i", "v", "e">>)
K_xdata(app) == PKeyApp(<<"x", "d", "a", "t", "a", "_">>, app)

S_height == <<"h", "e", "i", "g", "h", "t", ":">>
S_solid  == <<"s", "o", "l", "i", "d", ":">>
S_Name   == <<"N", "a", "m", "e", ":">>
S_z      == <<"z", ":">>

----------------------------------------------------------------------------
(* DirectIfcExporter._extract_xdata_properties                             *)

\* (mutant) a real item sets the height even when it is set already
DecodeItemRealWins(properties, app_id, item) ==
    LET keep == [props |-> properties, raised |-> FALSE]
        set(key, val) == [props |-> DictSet(properties, key, val), raised |-> FALSE]
    IN  IF item.code = 1000
        THEN LET sval == item.s
             IN  IF StartsWith(sval, S_height)
                 THEN IF FloatOk(SplitColon1(sval))
                      THEN set(K_height, FloatVal(FloatOf(SplitColon1(sval))))
                      ELSE keep
                 ELSE IF StartsWith(sval, S_solid)
                 THEN IF IntOk(SplitColon1(sval))
                      THEN set(K_solid, IntVal(IntOf(SplitColon1(sval))))
                      ELSE keep
                 ELSE IF StartsWith(sval, S_Name)
                 THEN set(K_name, StrVal(Strip(AfterColon(sval))))
                 ELSE IF StartsWith(sval, S_z)
                 THEN IF FloatOk(SplitColon1(sval))
                      THEN set(K_z_relative, FloatVal(FloatOf(SplitColon1(sval))))
                      ELSE keep
                 ELSE set(K_xdata(app_id), StrVal(sval))
        ELSE IF item.code = 1040
        THEN IF item.numeric
             THEN set(K_height, FloatVal(item.r))
             ELSE [props |-> properties, raised |-> TRUE]
        ELSE IF item.code = 1071
        THEN IF item.n \in {0, 1} /\ ~DictHas(properties, K_solid)
             THEN set(K_solid, IntVal(item.n))
             ELSE keep
        ELSE keep

\* one item of the stream of app_id: [props, raised]; raised when the item
\* throws out of the item loop (float(value) of a 1040 item)
DecodeItem(properties, app_id, item) ==
    LET keep == [props |-> properties, raised |-> FALSE]
        set(key, val) == [props |-> DictSet(properties, key, val), raised |-> FALSE]
    IN  IF item.code = 1000
        THEN LET sval == item.s
             IN  IF StartsWith(sval, S_height)
                 THEN IF FloatOk(SplitColon1(sval))
                      THEN set(K_height, FloatVal(FloatOf(SplitColon1(sval))))
                      ELSE keep
                 ELSE IF StartsWith(sval, S_solid)
                 THEN IF IntOk(SplitColon1(sval))
                      THEN set(K_solid, IntVal(IntOf(SplitColon1(sval))))
                      ELSE keep
                 ELSE IF StartsWith(sval, S_Name)
                 THEN set(K_name, StrVal(Strip(AfterColon(sval))))
                 ELSE IF StartsWith(sval, S_z)
                 THEN IF FloatOk(SplitColon1(sval))
                      THEN set(K_z_relative, FloatVal(FloatOf(SplitColon1(sval))))
                      ELSE keep
                 ELSE set(K_xdata(app_id), StrVal(sval))
        ELSE IF item.code = 1040
        THEN IF ~DictHas(properties, K_height)
             THEN IF item.numeric
                  THEN set(K_height, FloatVal(item.r))
                  ELSE [props |-> properties, raised |-> TRUE]
             ELSE keep
        ELSE IF item.code = 1071
        THEN IF item.n \in {0, 1} /\ ~DictHas(properties, K_solid)
             THEN set(K_solid, IntVal(item.n))
             ELSE keep
        ELSE keep

\* for item in xdata_list, from item i on; an item that raises ends the loop
\* (the except of the application's try block)
RECURSIVE DecodeItems(_, _, _, _)
AfterItem(r, app_id, items, i) ==
    IF r.raised THEN r.props ELSE DecodeItems(r.props, app_id, items, i + 1)

DecodeItems(properties, app_id, items, i) ==
    IF i > Len(items) THEN properties
    ELSE AfterItem(DecodeItem(properties, app_id, items[i]), app_id, items, i)

\* entity.get_xdata(app_id): the items, none when the entity holds no data
\* of that application (the call raises, the except logs it)
GetXdata(entity, app_id) ==
    IF \E g \in 1..Len(entity.xdata) : entity.xdata[g].app = app_id
    THEN entity.xdata[CHOOSE g \in 1..Len(entity.xdata) : entity.xdata[g].app = app_id].items
    ELSE <<>>

\* for app_id in appids, from application a on
RECURSIVE DecodeApps(_, _, _, _)
DecodeApps(properties, entity, appids, a) ==
    IF a > Len(appids) THEN properties
    ELSE DecodeApps(DecodeItems(properties, appids[a], GetXdata(entity, appids[a]), 1),
                    entity, appids, a + 1)

DefaultHeight == <<28, 1>>     \* 2.8

\* the applications scanned: QCAD is added last when the entity does not list it
AppIds(appids) ==
    IF \E a \in 1..Len(appids) : appids[a] = "QCAD" THEN appids ELSE Append(appids, "QCAD")

\* (mutant) the defaults are not applied
SetDefaultSkipped(properties, key, val) == properties

\* if key not in properties: properties[key] = val
SetDefault(properties, key, val) ==
    IF DictHas(properties, key) THEN properties ELSE DictSet(properties, key, val)

ExtractXdataProperties(entity) ==
    SetDefault(
        SetDefault(IF entity.has_xdata
                   THEN DecodeApps(<<>>, entity, AppIds(entity.appids), 1)
                   ELSE <<>>,
                   K_height, FloatVal(DefaultHeight)),
        K_solid, IntVal(1))

----------------------------------------------------------------------------
(* The IFC file (ifcopenshell.file) and the ifcopenshell.api calls used.   *)
(* model.ents is the sequence of rooted entities in creation order; an     *)
(* entity is referred to by its index.  The relationships are sets of      *)
(* pairs: aggregates <<whole, part>>, contained <<storey, element>>,       *)
(* voids <<element, opening>>.  psets is the sequence of property sets.    *)
(* Three fields of an entity record where it came from and are not part of *)
(* the file: layer (the DXF layer), void_type (for an opening, the type    *)
(* the classifier gave its void) and z_relative (the decoded relative Z).  *)

NoPlacement == [has |-> FALSE, rel_to |-> 0, z |-> ZeroF]

NoRep == [type |-> "None", points |-> <<>>, posZ |-> ZeroF, depth |-> ZeroF]

NoModel ==
    [exists |-> FALSE, ents |-> <<>>, aggregates |-> {}, contained |-> {},
     voids |-> {}, psets |-> <<>>, nguid |-> 0, length_unit |-> ""]

\* ifcopenshell.guid.new(): the n-th fresh identifier
NewGuid(n) == <<"guid", n>>

Entity(ifc_class, name, gid) ==
    [cls |-> ifc_class, name |-> name, gid |-> gid,
     has_elevation |-> FALSE, elevation |-> ZeroF,
     placement |-> NoPlacement, rep |-> NoRep,
     layer |-> <<>>, void_type |-> "", z_relative |-> ZeroF]

\* ifcopenshell.api.root.create_entity: a new rooted entity with a fresh GlobalId
RootCreateEntity(m, ifc_class, name) ==
    [m EXCEPT !.ents  = Append(@, Entity(ifc_class, name, NewGuid(m.nguid + 1))),
              !.nguid = @ + 1]

LastId(m) == Len(m.ents)

\* ifcopenshell.api.aggregate.assign_object: product becomes a part of
\* relating_object (and of nothing else)
AggregateAssignObject(m, product, relating_object) ==
    [m EXCEPT !.aggregates =
        {r \in @ : r[2] # product} \cup {<<relating_object, product>>}]

\* ifcopenshell.api.spatial.assign_container
SpatialAssignContainer(m, product, relating_structure) ==
    [m EXCEPT !.contained =
        {r \in @ : r[2] # product} \cup {<<relating_structure, product>>}]

\* ifcopenshell.api.run("void.add_opening", ...)
VoidAddOpening(m, opening, element) ==
    [m EXCEPT !.voids = {r \in @ : r[2] # opening} \cup {<<element, opening>>}]

----------------------------------------------------------------------------
(* DirectIfcExporter                                                       *)

FeetPerMetre     == <<328084, 5>>     \* 3.28084
SqFeetPerSqMetre == <<107639, 4>>     \* 10.7639
CuFeetPerCuMetre == <<353147, 4>>     \* 35.3147
OneF             == <<1, 0>>

\* the names given to the project, the site and the building
N_project_name  == <<"p", "r", "o", "j", "e", "c", "t">>
N_Building_Site == <<"B", "u", "i", "l", "d", "i", "n", "g", " ", "S", "i", "t", "e">>
N_Multi_Story   == <<"M", "u", "l", "t", "i", "-", "S", "t", "o", "r", "y", " ", "B", "u", "i", "l", "d", "i", "n", "g">>
N_Main_Building == <<"M", "a", "i", "n", " ", "B", "u", "i", "l", "d", "i", "n", "g">>

\* __init__
DirectIfcExporterInit(unit_system) ==
    [unit_system       |-> unit_system,
     length_conversion |-> IF unit_system = "imperial" THEN FeetPerMetre     ELSE OneF,
     area_conversion   |-> IF unit_system = "imperial" THEN SqFeetPerSqMetre ELSE OneF,
     volume_conversion |-> IF unit_system = "imperial" THEN CuFeetPerCuMetre ELSE OneF,
     model    |-> NoModel,
     project  |-> 0, site |-> 0, building |-> 0,
     storeys  |-> <<>>,         \* dict filename -> storey
     elements_created |-> 0,
     elements |-> <<>>]

\* create_ifc_model: the new file with its project and the unit assigned
WithProject(self) ==
    [self EXCEPT
        !.model = RootCreateEntity(
                      [NoModel EXCEPT !.exists = TRUE,
                                      !.length_unit = IF self.unit_system = "metric"
                                                      THEN "METRE" ELSE "FOOT"],
                      "IfcProject", N_project_name),
        !.project = LastId(NoModel) + 1]

\* create_ifc_model: the site, a part of the project
WithSite(self) ==
    [self EXCEPT
        !.model = AggregateAssignObject(
                      RootCreateEntity(self.model, "IfcSite", N_Building_Site),
                      LastId(self.model) + 1, self.project),
        !.site = LastId(self.model) + 1]

\* create_ifc_model: the building, a part of the site
WithBuilding(self) ==
    [self EXCEPT
        !.model = AggregateAssignObject(
                      RootCreateEntity(self.model, "IfcBuilding", N_Multi_Story),
                      LastId(self.model) + 1, self.site),
        !.building = LastId(self.model) + 1]

CreateIfcModel(self) == WithBuilding(WithSite(WithProject(self)))

ClosureTolerance == <<1, 3>>      \* 0.001

\* _create_polyline_geometry: the points in the units of the file
ConvertPoints(points, conv) ==
    [i \in 1..Len(points) |-> <<DecMul(points[i][1], conv), DecMul(points[i][2], conv)>>]

\* _create_polyline_geometry: "Asigura ca polyline-ul este inchis"
ClosePolyline(ifc_points_2d) ==
    IF /\ Len(ifc_points_2d) > 2
       /\ ~ ( /\ DecLess(DecAbs(DecSub(ifc_points_2d[1][1],
                                        ifc_points_2d[Len(ifc_points_2d)][1])),
                          ClosureTolerance)
              /\ DecLess(DecAbs(DecSub(ifc_points_2d[1][2],
                                        ifc_points_2d[Len(ifc_points_2d)][2])),
                          ClosureTolerance) )
    THEN Append(ifc_points_2d, ifc_points_2d[1])
    ELSE ifc_points_2d

\* _create_polyline_geometry: the representation given to the element
CreatePolylineGeometry(self, points, global_z, height) ==
    [type   |-> "SweptSolid",
     points |-> ClosePolyline(ConvertPoints(points, self.length_conversion)),
     posZ   |-> DecMul(global_z, self.length_conversion),
     depth  |-> DecMul(height, self.length_conversion)]

\* the parameters of the methods for circles, arcs and bounding boxes
CircleParameters == <<"ifc_element", "center", "radius", "global_z", "context">>

ArcParameters == <<"ifc_element", "entity", "global_z", "context">>

BboxParameters == <<"ifc_element", "bbox", "global_z", "context">>

\* a call binds its positional arguments to the parameters of the method;
\* it raises TypeError when their numbers differ
Binds(parameters, arguments) == Len(arguments) = Len(parameters)

\* _create_circle_geometry: a footprint that is a circle
CreateCircleGeometry(self, center, radius, global_z) ==
    [type   |-> "Circle",
     points |-> ConvertPoints(<<center>>, self.length_conversion),
     posZ   |-> DecMul(global_z, self.length_conversion),
     depth  |-> ZeroF,
     radius |-> DecMul(radius, self.length_conversion)]

num_segments == 16

\* _create_arc_geometry: an axis that is a polyline; point i is the point at
\* the fraction i / num_segments of the sweep
CreateArcGeometry(self, entity, global_z) ==
    [type   |-> "Polyline",
     points |-> [k \in 1..(num_segments + 1) |-> <<k - 1, num_segments>>],
     posZ   |-> DecMul(global_z, self.length_conversion),
     depth  |-> ZeroF]

\* _create_bbox_geometry: a footprint that is the rectangle of the box
CreateBboxGeometry(self, bbox, global_z) ==
    [type   |-> "Rectangle",
     points |-> ConvertPoints(<<<<bbox.extmin[1], bbox.extmin[2]>>,
                                <<bbox.extmax[1], bbox.extmin[2]>>,
                                <<bbox.extmax[1], bbox.extmax[2]>>,
                                <<bbox.extmin[1], bbox.extmax[2]>>,
                                <<bbox.extmin[1], bbox.extmin[2]>>>>,
                              self.length_conversion),
     posZ   |-> DecMul(global_z, self.length_conversion),
     depth  |-> ZeroF]

\* _create_ifc_geometry: the representation the element ends with.  The
\* calls of _create_circle_geometry, _create_arc_geometry and
\* _create_bbox_geometry pass height, an argument more than these methods
\* take: they raise TypeError, which the except clauses swallow.
CreateIfcGeometry(self, entity, global_z, height) ==
    IF entity.dxftype = "LWPOLYLINE"
    THEN IF Len(entity.points) >= 2
         THEN CreatePolylineGeometry(self, entity.points, global_z, height)
         ELSE NoRep
    ELSE IF entity.dxftype = "LINE"
    THEN CreatePolylineGeometry(self, entity.points, global_z, height)
    ELSE IF entity.dxftype = "CIRCLE"
    THEN IF /\ {"center", "radius"} \subseteq entity.attrs
            /\ Binds(CircleParameters,
                     <<"ifc_element", "center", "radius", "global_z", "height", "context">>)
         THEN CreateCircleGeometry(self, entity.geom.center, entity.geom.radius, global_z)
         ELSE NoRep
    ELSE IF entity.dxftype = "ARC"
    THEN IF /\ {"center", "radius"} \subseteq entity.attrs
            /\ Binds(ArcParameters,
                     <<"ifc_element", "entity", "global_z", "height", "context">>)
         THEN CreateArcGeometry(self, entity, global_z)
         ELSE NoRep
    ELSE IF entity.dxftype \in {"3DFACE", "3DSOLID", "MESH"}
    THEN IF /\ "bounding_box" \in entity.attrs
            /\ Binds(BboxParameters,
                     <<"ifc_element", "bbox", "global_z", "height", "context">>)
         THEN CreateBboxGeometry(self, entity.geom, global_z)
         ELSE NoRep
    ELSE NoRep

FallbackHeight == <<1, 1>>     \* 0.1

S_Opening_ == <<"O", "p", "e", "n", "i", "n", "g", "_">>
S_IfcWindow   == <<"I", "f", "c", "W", "i", "n", "d", "o", "w">>
S_IfcWall     == <<"I", "f", "c", "W", "a", "l", "l">>
S_IfcCovering == <<"I", "f", "c", "C", "o", "v", "e", "r", "i", "n", "g">>
S_DXF_Properties_ == <<"D", "X", "F", "_", "P", "r", "o", "p", "e", "r", "t", "i", "e", "s", "_">>

\* _add_properties_from_xdata: the model with the property set of the element
UnitWord(key, word) == Contains(word, Lower(key.k))

AddPropertiesFromXdata(self, m, ifc_element, properties, layer) ==
    LET converted(key, val) ==
            IF val.t = "str" THEN val
            ELSE LET num == IF val.t = "int" THEN <<val.n, 0>> ELSE val.f
                 IN  IF self.unit_system = "imperial" /\ UnitWord(key, <<"a", "r", "e", "a">>)
                     THEN FloatVal(DecMul(num, self.area_conversion))
                     ELSE IF self.unit_system = "imperial"
                             /\ ( \/ UnitWord(key, <<"l", "e", "n", "g", "t", "h">>)
                                  \/ UnitWord(key, <<"w", "i", "d", "t", "h">>)
                                  \/ UnitWord(key, <<"h", "e", "i", "g", "h", "t">>) )
                     THEN FloatVal(DecMul(num, self.length_conversion))
                     ELSE FloatVal(num)
        layer_value ==
            IF layer # <<>>
            THEN <<[key |-> PKey(<<"L", "a", "y", "e", "r">>), val |-> StrVal(layer)]>>
            ELSE <<>>
        property_values ==
            layer_value \o
            [i \in 1..Len(properties) |->
                [key |-> properties[i].key,
                 val |-> converted(properties[i].key, properties[i].val)]]
    IN  IF properties = <<>> /\ layer = <<>> THEN m
        ELSE IF property_values = <<>> THEN m
        ELSE [m EXCEPT
                !.psets = Append(@, [gid     |-> NewGuid(m.nguid + 1),
                                     rel_gid |-> NewGuid(m.nguid + 2),
                                     name    |-> S_DXF_Properties_ \o layer,
                                     props   |-> property_values,
                                     element |-> ifc_element]),
                !.nguid = @ + 2]

\* _apply_opening_to_element
ApplyOpeningToElement(self, m, ifc_element, void_data, global_z) ==
    LET opening == LastId(m) + 1
    IN  VoidAddOpening(
            [RootCreateEntity(m, "IfcOpeningElement", S_Opening_ \o void_data.name) EXCEPT
                !.ents[opening].rep =
                    CreateIfcGeometry(self, void_data.entity, global_z,
                        DictGetOr(void_data.xdata, K_height, FloatVal(FallbackHeight)).f),
                !.ents[opening].layer = void_data.layer,
                !.ents[opening].void_type = void_data.ifc_type],
            opening, ifc_element)

\* for void_data in voids, from void j on
RECURSIVE ApplyOpenings(_, _, _, _, _, _)
ApplyOpenings(self, m, ifc_element, voids, global_z, j) ==
    IF j > Len(voids) THEN m
    ELSE ApplyOpenings(self,
                       ApplyOpeningToElement(self, m, ifc_element, voids[j], global_z),
                       ifc_element, voids, global_z, j + 1)

\* which voids are the window voids, which solids they cut
IsWindowVoid(v) == v.layer = S_IfcWindow

IsWindowTarget(solid_data) == solid_data.layer \in {S_IfcWall, S_IfcCovering}

\* if applies and voids: for void_data in voids: _apply_opening_to_element
ApplyVoids(applies, self, m, ifc_element, voids, global_z) ==
    IF applies /\ voids # <<>>
    THEN ApplyOpenings(self, m, ifc_element, voids, global_z, 1)
    ELSE m

\* the element of a solid: created, contained in the storey, given its geometry
CreateSolidElement(self, m, solid_data, storey) ==
    LET ifc_element == LastId(m) + 1
    IN  [SpatialAssignContainer(RootCreateEntity(m, solid_data.ifc_type, solid_data.name),
                                ifc_element, storey)
         EXCEPT
            !.ents[ifc_element].rep =
                CreateIfcGeometry(self, solid_data.entity, solid_data.global_z,
                    DictGetOr(solid_data.xdata, K_height, FloatVal(FallbackHeight)).f),
            !.ents[ifc_element].layer = solid_data.layer,
            !.ents[ifc_element].z_relative =
                DictGetOr(solid_data.xdata, K_z_relative, FloatVal(ZeroF)).f]

\* the body of the loop of _apply_boolean_operations for one solid
ApplyBooleanToSolid(self, m, solid_data, window_voids, generic_voids, storey) ==
    LET ifc_element == LastId(m) + 1
    IN  AddPropertiesFromXdata(self,
            ApplyVoids(TRUE, self,
                ApplyVoids(IsWindowTarget(solid_data), self,
                    CreateSolidElement(self, m, solid_data, storey),
                    ifc_element, window_voids, solid_data.global_z),
                ifc_element, generic_voids, solid_data.global_z),
            ifc_element, solid_data.xdata, solid_data.layer)

RECURSIVE ApplyBooleanFrom(_, _, _, _, _, _, _)
ApplyBooleanFrom(self, m, solid_elements, window_voids, generic_voids, storey, i) ==
    IF i > Len(solid_elements) THEN m
    ELSE ApplyBooleanFrom(self,
             ApplyBooleanToSolid(self, m, solid_elements[i], window_voids, generic_voids, storey),
             solid_elements, window_voids, generic_voids, storey, i + 1)

\* _apply_boolean_operations: the model with the elements of the storey;
\* final_elements holds one element per solid
IsGenericVoid(v) == ~IsWindowVoid(v)

ApplyBooleanOperations(self, m, solid_elements, void_elements, storey) ==
    ApplyBooleanFrom(self, m, solid_elements,
                     SelectSeq(void_elements, IsWindowVoid),
                     SelectSeq(void_elements, IsGenericVoid), storey, 1)

\* _process_dxf_entity_geometry: the element data, skip set for "SKIP" (None)
ProcessDxfEntityGeometry(entity, global_z, xdata_props) ==
    LET ifc_type == DetermineIfcType(entity, entity.layer)
    IN  [skip     |-> ifc_type = "SKIP",
         entity   |-> entity,
         ifc_type |-> ifc_type,
         name     |-> entity.layer \o <<"_">> \o entity.handle,
         layer    |-> entity.layer,
         xdata    |-> xdata_props,
         global_z |-> global_z]

\* the storey of a path met before is used again
CreateStoreyReusing(self, dxf_path, global_z) ==
    IF DictHas(self.storeys, dxf_path) THEN self
    ELSE [self EXCEPT
            !.model = AggregateAssignObject(
                          [RootCreateEntity(self.model, "IfcBuildingStorey",
                                            SplitExtRoot(Basename(dxf_path)))
                           EXCEPT !.ents[LastId(self.model) + 1].has_elevation = TRUE,
                                  !.ents[LastId(self.model) + 1].elevation =
                                      DecMul(global_z, self.length_conversion)],
                          LastId(self.model) + 1, self.building),
            !.storeys = DictSet(@, dxf_path, LastId(self.model) + 1)]

\* process_dxf_file: the storey of the file, entered in self.storeys
CreateStorey(self, dxf_path, global_z) ==
    LET storey == LastId(self.model) + 1
    IN  [self EXCEPT
            !.model = AggregateAssignObject(
                          [RootCreateEntity(self.model, "IfcBuildingStorey",
                                            SplitExtRoot(Basename(dxf_path)))
                           EXCEPT !.ents[storey].has_elevation = TRUE,
                                  !.ents[storey].elevation =
                                      DecMul(global_z, self.length_conversion)],
                          storey, self.building),
            !.storeys = DictSet(@, dxf_path, storey)]

\* process_dxf_file: solid_flag = xdata_props.get('solid', 1)
SolidFlag(element_data) == DictGetOr(element_data.xdata, K_solid, IntVal(1)).n

IsVoidData(element_data) == ~element_data.skip /\ SolidFlag(element_data) = 0

IsSolidData(element_data) == ~element_data.skip /\ SolidFlag(element_data) # 0

\* process_dxf_file: the loop over msp, the element data of every entity
ElementDataOf(msp, global_z) ==
    [i \in 1..Len(msp) |->
        ProcessDxfEntityGeometry(msp[i], global_z, ExtractXdataProperties(msp[i]))]

\* process_dxf_file from the partition into solids and voids on
ProcessElementData(self, dxf_path, datas) ==
    [self EXCEPT
        !.model = ApplyBooleanOperations(self, self.model,
                                         SelectSeq(datas, IsSolidData),
                                         SelectSeq(datas, IsVoidData),
                                         DictGet(self.storeys, dxf_path)),
        !.elements_created = @ + Len(SelectSeq(datas, IsSolidData))]

\* process_dxf_file with the elevation extracted
ProcessDxfFileAt(self, dxf_path, msp, global_z) ==
    ProcessElementData(CreateStorey(self, dxf_path, global_z), dxf_path,
                       ElementDataOf(msp, global_z))

\* process_dxf_file for a file that ezdxf reads: msp is its sequence of entities
ProcessDxfFile(self, dxf_path, msp) ==
    ProcessDxfFileAt(self, dxf_path, msp, ExtractGlobalZ(dxf_path))

----------------------------------------------------------------------------
(* IFCDirectExporter (ifc_direct_exporter.py).  An element record of the   *)
(* mapping is [mesh_name, ifc_type, has_uuid, uuid, vertices, has_height,  *)
(* height, has_z_relative, z_relative]: the keys the exporter reads.       *)

SuppliedGuid(uuid) == <<"uuid", uuid>>

\* __init__
IFCDirectExporterInit ==
    [unit_system       |-> "metric",
     length_conversion |-> OneF,
     area_conversion   |-> OneF,
     volume_conversion |-> OneF,
     model    |-> NoModel,
     project  |-> 0, site |-> 0, building |-> 0,
     storeys  |-> <<>>,
     elements_created |-> 0,
     elements |-> <<>>]

\* model.create_entity("IfcRelAggregates", ...)
RelAggregates(m, relating_object, related) ==
    [m EXCEPT !.aggregates = @ \cup {<<relating_object, related>>}]

\* create_ifc_model, _create_project_structure
CreateProjectStructure(self) ==
    LET m0 == [NoModel EXCEPT !.exists = TRUE]
        m1 == [m0 EXCEPT !.ents  = Append(@, Entity("IfcProject", N_project_name, NewGuid(1))),
                         !.nguid = 2]     \* the project, IfcRelDeclares
        project == LastId(m1)
        m2 == [m1 EXCEPT !.ents  = Append(@, Entity("IfcSite", N_Building_Site, NewGuid(3))),
                         !.nguid = 4]     \* the site, IfcRelAggregates
        site == LastId(m2)
        m3 == RelAggregates(m2, project, site)
        m4 == [m3 EXCEPT !.ents  = Append(@, Entity("IfcBuilding", N_Main_Building, NewGuid(5))),
                         !.nguid = 6]     \* the building, IfcRelAggregates
        building == LastId(m4)
        m5 == RelAggregates(m4, site, building)
    IN  [self EXCEPT !.model = m5, !.project = project, !.site = site,
                     !.building = building]

ifc_constructors ==
    {"IfcWall", "IfcColumn", "IfcBeam", "IfcSlab", "IfcRoof", "IfcDoor",
     "IfcWindow", "IfcSpace", "IfcCovering", "IfcBuildingElementProxy"}

VertexTolerance == <<1, 6>>     \* 1e-6

\* _create_geometry_from_element_data
CreateGeometryFromElementData(element_data) ==
    LET vertices_2d == element_data.vertices
        height == IF element_data.has_height THEN element_data.height ELSE OneF
        first == vertices_2d[1]
        last  == vertices_2d[Len(vertices_2d)]
        open  == \/ DecLess(VertexTolerance, DecAbs(DecSub(first[1], last[1])))
                 \/ DecLess(VertexTolerance, DecAbs(DecSub(first[2], last[2])))
        points == IF Len(vertices_2d) > 2 /\ open
                  THEN Append(vertices_2d, first) ELSE vertices_2d
    IN  IF Len(vertices_2d) < 3 THEN NoRep
        ELSE IF DecLess(ZeroF, height)
        THEN [type |-> "SweptSolid", points |-> points, posZ |-> ZeroF, depth |-> height]
        ELSE [type |-> "Curve2D", points |-> points, posZ |-> ZeroF, depth |-> ZeroF]

\* _create_element_placement: relative to the placement of the storey
CreateElementPlacement(element_data, parent) ==
    [has    |-> TRUE,
     rel_to |-> parent,
     z      |-> IF element_data.has_z_relative THEN element_data.z_relative ELSE ZeroF]

\* _add_element_properties: the property set of the keys present
AddElementProperties(m, ifc_element, element_data) ==
    LET height_value ==
            IF element_data.has_height
            THEN <<[key |-> PKey(<<"H", "e", "i", "g", "h", "t">>),
                    val |-> FloatVal(element_data.height)]>>
            ELSE <<>>
        z_value ==
            IF element_data.has_z_relative
            THEN <<[key |-> K_z_relative, val |-> FloatVal(element_data.z_relative)]>>
            ELSE <<>>
        property_values == height_value \o z_value
    IN  IF property_values = <<>> THEN m
        ELSE [m EXCEPT
                !.psets = Append(@, [gid     |-> NewGuid(m.nguid + 1),
                                     rel_gid |-> NewGuid(m.nguid + 2),
                                     name    |-> <<>>,
                                     props   |-> property_values,
                                     element |-> ifc_element]),
                !.nguid = @ + 2]

\* _create_ifc_element_from_data with _create_typed_ifc_element
CreateIfcElementFromData(m, element_data, parent) ==
    LET constructor_name ==
            IF element_data.ifc_type \in ifc_constructors
            THEN element_data.ifc_type ELSE "IfcBuildingElementProxy"
        fresh == ~element_data.has_uuid       \* str(uuid.uuid4())
        gid == IF fresh THEN NewGuid(m.nguid + 1) ELSE SuppliedGuid(element_data.uuid)
        m1 == [m EXCEPT
                 !.ents  = Append(@, Entity(constructor_name, element_data.mesh_name, gid)),
                 !.nguid = IF fresh THEN @ + 1 ELSE @]
        ifc_element == LastId(m1)
        m2 == [m1 EXCEPT
                 !.ents[ifc_element].rep = CreateGeometryFromElementData(element_data),
                 !.ents[ifc_element].placement = CreateElementPlacement(element_data, parent),
                 !.ents[ifc_element].z_relative =
                     IF element_data.has_z_relative THEN element_data.z_relative ELSE ZeroF]
    IN  AddElementProperties(m2, ifc_element, element_data)

RECURSIVE CreateElementsFrom(_, _, _, _)
CreateElementsFrom(m, elements_data, parent, i) ==
    IF i > Len(elements_data) THEN m
    ELSE CreateElementsFrom(CreateIfcElementFromData(m, elements_data[i], parent),
                            elements_data, parent, i + 1)

\* add_storey_from_dxf
AddStoreyFromDxf(self, dxf_filename, global_z, elements_data) ==
    LET storey_name == SplitExtRoot(Basename(dxf_filename))
        m0 == self.model
        m1 == [m0 EXCEPT
                 !.ents  = Append(@, [Entity("IfcBuildingStorey", storey_name,
                                             NewGuid(m0.nguid + 1))
                                        EXCEPT !.has_elevation = TRUE,
                                               !.elevation = global_z,
                                               !.placement = [has |-> TRUE, rel_to |-> 0,
                                                              z |-> global_z]]),
                 !.nguid = @ + 2]     \* the storey, IfcRelAggregates
        storey == LastId(m1)
        m2 == RelAggregates(m1, self.building, storey)
        m3 == CreateElementsFrom(m2, elements_data, storey, 1)
        storey_elements == {e \in (storey + 1)..Len(m3.ents) : TRUE}
        m4 == IF storey_elements # {}
              THEN [m3 EXCEPT !.contained = @ \cup {<<storey, e>> : e \in storey_elements},
                              !.nguid = @ + 1]
              ELSE m3
    IN  [self EXCEPT !.model = m4,
                     !.storeys = DictSet(@, dxf_filename, storey),
                     !.elements = @ \o [i \in 1..Len(elements_data) |-> storey + i]]

\* processed_data.sort(key=lambda x: x['global_z']): the stable insertion of
\* item into a sorted list
RECURSIVE InsertByZ(_, _)
InsertByZ(sorted, item) ==
    IF sorted = <<>> THEN <<item>>
    ELSE IF DecLeq(sorted[Len(sorted)].global_z, item.global_z)
         THEN Append(sorted, item)
         ELSE Append(InsertByZ(SubSeq(sorted, 1, Len(sorted) - 1), item),
                     sorted[Len(sorted)])

RECURSIVE SortByGlobalZ(_)
SortByGlobalZ(data) ==
    IF data = <<>> THEN <<>>
    ELSE InsertByZ(SortByGlobalZ(SubSeq(data, 1, Len(data) - 1)), data[Len(data)])

----------------------------------------------------------------------------
(* The inputs of a run                                                     *)

MaxFiles == 2        \* at most MaxFiles input paths

F_a0 == <<"a", "_", "0", ".", "d", "x", "f">>
F_b3 == <<"d", "/", "b", "_", "3", ".", "d", "x", "f">>

FilePaths == {F_a0, F_b3}

Pt(x, y) == <<<<x, 0>>, <<y, 0>>>>

QCAD(items) == <<[app |-> "QCAD", items |-> items]>>

\* the attributes an entity of a kind has: center and radius of a circle
\* or an arc, the bounding box of a kind that has one
AttrsOf(dxftype) ==
    IF dxftype \in {"CIRCLE", "ARC"} THEN {"center", "radius"}
    ELSE IF dxftype \in {"3DFACE", "3DSOLID", "MESH"} THEN {"bounding_box"}
    ELSE {}

\* the values of these attributes
Geom ==
    [center |-> <<<<1, 0>>, <<1, 0>>>>, radius |-> <<5, 1>>,
     extmin |-> <<<<0, 0>>, <<0, 0>>>>, extmax |-> <<<<2, 0>>, <<1, 0>>>>]

DxfEntity(dxftype, layer, xdata, points) ==
    [dxftype |-> dxftype, layer |-> layer, handle |-> <<"0">>,
     has_xdata |-> xdata # <<>>, appids |-> [g \in 1..Len(xdata) |-> xdata[g].app],
     xdata |-> xdata, points |-> points, attrs |-> AttrsOf(dxftype), geom |-> Geom]

\* a wall on a synonym layer: an open outline of three points
E_wall ==
    DxfEntity("LWPOLYLINE", <<"w", "a", "l", "l">>,
              QCAD(<<XStr(<<"h", "e", "i", "g", "h", "t", ":", "3", ".", "0">>),
                     XStr(<<"s", "o", "l", "i", "d", ":", "1">>)>>),
              <<Pt(0, 0), Pt(1, 0), Pt(1, 1)>>)

\* a wall on the layer IfcWall, a line, 1.5 above its storey
E_IfcWall ==
    DxfEntity("LINE", S_IfcWall,
              QCAD(<<XStr(<<"z", ":", "1", ".", "5">>)>>),
              <<Pt(0, 0), Pt(1, 0)>>)

\* a column: a circle without extended data
E_column == DxfEntity("CIRCLE", <<"c", "o", "l", "u", "m", "n">>, <<>>, <<>>)

\* a window void on the layer IfcWindow
E_IfcWindow ==
    DxfEntity("LWPOLYLINE", S_IfcWindow,
              QCAD(<<XStr(<<"s", "o", "l", "i", "d", ":", "0">>),
                     XStr(<<"h", "e", "i", "g", "h", "t", ":", "1", ".", "2">>)>>),
              <<Pt(0, 0), Pt(1, 0), Pt(1, 1), Pt(0, 0)>>)

\* a window void on a synonym layer, its flag an integer item
E_ferestre ==
    DxfEntity("LWPOLYLINE", <<"f", "e", "r", "e", "s", "t", "r", "e">>,
              QCAD(<<XInt(0)>>),
              <<Pt(0, 0), Pt(1, 0), Pt(1, 1)>>)

\* a void on a layer no synonym matches
E_cut ==
    DxfEntity("LINE", <<"c", "u", "t">>,
              QCAD(<<XStr(<<"s", "o", "l", "i", "d", ":", "0">>)>>),
              <<Pt(0, 0), Pt(0, 1)>>)

\* a text, which the classifier skips
E_text == DxfEntity("TEXT", <<"n", "o", "t", "e", "s">>, <<>>, <<>>)

DigitChars == <<"1", "2", "3", "4", "5", "6", "7", "8", "9">>

\* a modelspace: the handle of an entity is its position
Msp(es) == [i \in 1..Len(es) |-> [es[i] EXCEPT !.handle = <<DigitChars[i]>>]]

\* the modelspaces a DXF file may hold
Modelspaces ==
    { Msp(<<>>),
      Msp(<<E_wall>>),
      Msp(<<E_wall, E_IfcWindow>>),
      Msp(<<E_IfcWall, E_ferestre>>),
      Msp(<<E_column, E_ferestre>>),
      Msp(<<E_text, E_IfcWall, E_IfcWindow>>),
      Msp(<<E_column, E_cut, E_IfcWall, E_IfcWindow>>) }

ElementRecord(mesh_name, ifc_type, has_uuid, uuid, vertices, height, has_z, z_relative) ==
    [mesh_name |-> mesh_name, ifc_type |-> ifc_type, has_uuid |-> has_uuid, uuid |-> uuid,
     vertices |-> vertices, has_height |-> TRUE, height |-> height,
     has_z_relative |-> has_z, z_relative |-> z_relative]

R_Wall_1 ==
    ElementRecord(<<"W", "a", "l", "l", "_", "1">>, "IfcWall", TRUE, 1,
                  <<Pt(0, 0), Pt(5, 0), Pt(5, 1), Pt(0, 1)>>, <<3, 0>>, TRUE, ZeroF)

R_Wall_2 ==
    ElementRecord(<<"W", "a", "l", "l", "_", "2">>, "IfcWall", TRUE, 1,
                  <<Pt(0, 0), Pt(5, 0), Pt(5, 1), Pt(0, 0)>>, <<3, 0>>, TRUE, <<15, 1>>)

R_Column_1 ==
    ElementRecord(<<"C", "o", "l", "u", "m", "n", "_", "1">>, "IfcColumn", FALSE, 0,
                  <<Pt(0, 0), Pt(1, 0)>>, <<28, 1>>, FALSE, ZeroF)

\* the mappings dxf_to_gltf may write for a file
Mappings ==
    { <<>>, <<R_Wall_1>>, <<R_Wall_2, R_Column_1>>, <<R_Wall_1, R_Wall_2>> }

\* the elevations extract_global_z_from_filename of dxf_to_glb_trimesh, or an
\* override, may give a file
Elevations == {ZeroF, <<3, 0>>}

----------------------------------------------------------------------------
(* The runs.  direct: main() of direct_ifc_from_dxf.py.  integration:      *)
(* convert_multiple_dxf_to_single_ifc with create_multi_level_ifc_from_    *)
(* dxf_data.  The content of a file is chosen when the file is read.       *)

Report(status, path, content, storey) ==
    [status |-> status, path |-> path, content |-> content, storey |-> storey]

ZIdle == zident = <<>> /\ zpc = "idle" /\ zres = ZeroF

NoReturn == [props |-> <<>>, ifc_type |-> "", exporter |-> IFCDirectExporterInit]

DIdle == dent = <<>> /\ dunit = "" /\ dpc = "idle" /\ dret = NoReturn

NoRoom ==
    [edges |-> <<>>, has_object |-> FALSE, Levels |-> <<>>, table_levels |-> <<>>,
     offset_interior |-> <<0, 0>>, offset_valid |-> FALSE, inset |-> <<<<0, 0>>, <<0, 0>>>>]

NoOutput ==
    [levels |-> <<>>, points |-> <<>>, spaces |-> <<>>, storeys |-> <<>>, next |-> 0,
     meshes |-> <<>>]

GIdle == groom = NoRoom /\ gpc = "idle" /\ gout = NoOutput

\* the Diagram.xml paths under the watched root
WPaths == {"a/Diagram.xml", "b/Diagram.xml"}

NoFiles == [p \in WPaths |-> 0]

WIdle ==
    /\ wfiles = NoFiles /\ wclock = 0 /\ file_timestamps = NoFiles
    /\ current_timestamps = NoFiles /\ wpc = "idle" /\ wprocessed = NoFiles
    /\ wunseen = FALSE /\ wdeleted = FALSE

\* the unit systems main accepts, and one it refuses
UnitSystems == {"metric", "imperial"}

UnitArguments == UnitSystems \cup {"feet"}

\* exporter holds, until main creates it, the unit system given as argument
Init ==
    /\ prog \in {"direct", "integration"}
    /\ argv \in UNION {[1..n -> FilePaths] : n \in 1..MaxFiles}
    /\ pc = "start"
    /\ idx = 1
    /\ exporter \in IF prog = "direct"
                    THEN {DirectIfcExporterInit(u) : u \in UnitArguments}
                    ELSE {IFCDirectExporterInit}
    /\ processed_data = <<>>
    /\ log = <<>>
    /\ exit_status = -1
    /\ IFC_AVAILABLE \in BOOLEAN
    /\ output = "none"
    /\ ZIdle /\ DIdle /\ GIdle /\ WIdle

\* main: if not IFC_AVAILABLE: sys.exit(1)
DNoIfc ==
    /\ prog = "direct" /\ pc = "start"
    /\ ~IFC_AVAILABLE
    /\ exit_status' = 1
    /\ pc' = "exit"
    /\ UNCHANGED <<IFC_AVAILABLE, prog, argv, idx, exporter, processed_data, log, output, zvars, dvars, gvars, wvars>>

\* main: if unit_system not in ["metric", "imperial"]: sys.exit(1)
DBadUnit ==
    /\ prog = "direct" /\ pc = "start"
    /\ IFC_AVAILABLE
    /\ exporter.unit_system \notin UnitSystems
    /\ exit_status' = 1
    /\ pc' = "exit"
    /\ UNCHANGED <<IFC_AVAILABLE, prog, argv, idx, exporter, processed_data, log, output, zvars, dvars, gvars, wvars>>

\* main: exporter.create_ifc_model()
DCreateModel ==
    /\ prog = "direct" /\ pc = "start"
    /\ IFC_AVAILABLE
    /\ exporter.unit_system \in UnitSystems
    /\ exporter' = CreateIfcModel(exporter)
    /\ pc' = "files"
    /\ UNCHANGED <<IFC_AVAILABLE, prog, argv, idx, processed_data, log, exit_status, output, zvars, dvars, gvars, wvars>>

\* (mutant) a missing file ends the run
DFileMissingAborts ==
    /\ prog = "direct" /\ pc = "files" /\ idx <= Len(argv)
    /\ log' = Append(log, Report("missing", argv[idx], <<>>, 0))
    /\ exit_status' = 1
    /\ pc' = "exit"
    /\ UNCHANGED <<IFC_AVAILABLE, prog, argv, idx, exporter, processed_data, output, zvars, dvars, gvars, wvars>>

\* main: os.path.exists(dxf_file) is false
DFileMissing ==
    /\ prog = "direct" /\ pc = "files" /\ idx <= Len(argv)
    /\ log' = Append(log, Report("missing", argv[idx], <<>>, 0))
    /\ idx' = idx + 1
    /\ UNCHANGED <<IFC_AVAILABLE, prog, argv, pc, exporter, processed_data, exit_status, output, zvars, dvars, gvars, wvars>>

\* main: process_dxf_file, ezdxf.readfile raises
DFileUnreadable ==
    /\ prog = "direct" /\ pc = "files" /\ idx <= Len(argv)
    /\ log' = Append(log, Report("failed", argv[idx], <<>>, 0))
    /\ idx' = idx + 1
    /\ UNCHANGED <<IFC_AVAILABLE, prog, argv, pc, exporter, processed_data, exit_status, output, zvars, dvars, gvars, wvars>>

\* main: process_dxf_file of a file ezdxf reads
DProcessDxfFile ==
    /\ prog = "direct" /\ pc = "files" /\ idx <= Len(argv)
    /\ \E msp \in Modelspaces :
          /\ exporter' = ProcessDxfFile(exporter, argv[idx], msp)
          /\ log' = Append(log, Report("ok", argv[idx], msp,
                                       DictGet(exporter'.storeys, argv[idx])))
    /\ idx' = idx + 1
    /\ UNCHANGED <<IFC_AVAILABLE, prog, argv, pc, processed_data, exit_status, output, zvars, dvars, gvars, wvars>>

\* main: export_ifc and sys.exit; the write succeeds or raises
DExport ==
    /\ prog = "direct" /\ pc = "files" /\ idx > Len(argv)
    /\ \E written \in BOOLEAN :
          /\ output' = IF written THEN "written" ELSE "failed"
          /\ exit_status' = IF written THEN 0 ELSE 1
    /\ pc' = "exit"
    /\ UNCHANGED <<IFC_AVAILABLE, prog, argv, idx, exporter, processed_data, log, zvars, dvars, gvars, wvars>>

\* the import of the converter modules failed: sys.exit(1)
INoIfc ==
    /\ prog = "integration" /\ pc = "start" /\ idx = 1
    /\ ~IFC_AVAILABLE
    /\ exit_status' = 1
    /\ pc' = "exit"
    /\ UNCHANGED <<IFC_AVAILABLE, prog, argv, idx, exporter, processed_data, log, output, zvars, dvars, gvars, wvars>>

\* convert_multiple_dxf_to_single_ifc: the file does not exist
IFileMissing ==
    /\ prog = "integration" /\ pc = "start" /\ idx <= Len(argv)
    /\ IFC_AVAILABLE
    /\ log' = Append(log, Report("missing", argv[idx], <<>>, 0))
    /\ idx' = idx + 1
    /\ UNCHANGED <<IFC_AVAILABLE, prog, argv, pc, exporter, processed_data, exit_status, output, zvars, dvars, gvars, wvars>>

\* process_single_dxf_for_ifc returns None
IFileFailed ==
    /\ prog = "integration" /\ pc = "start" /\ idx <= Len(argv)
    /\ IFC_AVAILABLE
    /\ log' = Append(log, Report("failed", argv[idx], <<>>, 0))
    /\ idx' = idx + 1
    /\ UNCHANGED <<IFC_AVAILABLE, prog, argv, pc, exporter, processed_data, exit_status, output, zvars, dvars, gvars, wvars>>

\* process_single_dxf_for_ifc returns the data of the file
IProcessSingle ==
    /\ prog = "integration" /\ pc = "start" /\ idx <= Len(argv)
    /\ IFC_AVAILABLE
    /\ \E mapping_data \in Mappings, global_z \in Elevations :
          /\ processed_data' = Append(processed_data,
                [filename  |-> Basename(argv[idx]),
                 full_path |-> argv[idx],
                 global_z  |-> global_z,
                 elements  |-> mapping_data])
          /\ log' = Append(log, Report("ok", argv[idx], mapping_data, 0))
    /\ idx' = idx + 1
    /\ UNCHANGED <<IFC_AVAILABLE, prog, argv, pc, exporter, exit_status, output, zvars, dvars, gvars, wvars>>

\* no file was processed: return False
INothingProcessed ==
    /\ prog = "integration" /\ pc = "start" /\ idx > Len(argv)
    /\ processed_data = <<>>
    /\ exit_status' = 1
    /\ pc' = "exit"
    /\ UNCHANGED <<IFC_AVAILABLE, prog, argv, idx, exporter, processed_data, log, output, zvars, dvars, gvars, wvars>>

\* the sort by global_z, then create_multi_level_ifc_from_dxf_data up to its loop
ISortAndCreate ==
    /\ prog = "integration" /\ pc = "start" /\ idx > Len(argv)
    /\ processed_data # <<>>
    /\ processed_data' = SortByGlobalZ(processed_data)
    /\ exporter' = CreateProjectStructure(IFCDirectExporterInit)
    /\ pc' = "storeys"
    /\ idx' = 1
    /\ UNCHANGED <<IFC_AVAILABLE, prog, argv, log, exit_status, output, zvars, dvars, gvars, wvars>>

\* create_multi_level_ifc_from_dxf_data: one iteration of its loop
IAddStorey ==
    /\ prog = "integration" /\ pc = "storeys" /\ idx <= Len(processed_data)
    /\ exporter' = AddStoreyFromDxf(exporter, processed_data[idx].filename,
                                    processed_data[idx].global_z,
                                    processed_data[idx].elements)
    /\ idx' = idx + 1
    /\ UNCHANGED <<IFC_AVAILABLE, prog, argv, pc, processed_data, log, exit_status, output, zvars, dvars, gvars, wvars>>

\* export_ifc, get_summary, and the exit status of the conversion
IExport ==
    /\ prog = "integration" /\ pc = "storeys" /\ idx > Len(processed_data)
    /\ \E written \in BOOLEAN :
          /\ output' = IF written THEN "written" ELSE "failed"
          /\ exit_status' = IF written THEN 0 ELSE 1
    /\ pc' = "exit"
    /\ UNCHANGED <<IFC_AVAILABLE, prog, argv, idx, exporter, processed_data, log, zvars, dvars, gvars, wvars>>

Next ==
    \/ DNoIfc \/ DBadUnit \/ INoIfc
    \/ DCreateModel \/ DFileMissing \/ DFileUnreadable \/ DProcessDxfFile \/ DExport
    \/ IFileMissing \/ IFileFailed \/ IProcessSingle \/ INothingProcessed
    \/ ISortAndCreate \/ IAddStorey \/ IExport

Spec == Init /\ [][Next]_vars

XIdle ==
    /\ prog = "none" /\ argv = <<>> /\ pc = "idle" /\ idx = 0
    /\ exporter = IFCDirectExporterInit /\ processed_data = <<>> /\ log = <<>>
    /\ exit_status = -1 /\ IFC_AVAILABLE = TRUE /\ output = "none"

----------------------------------------------------------------------------
(* The document of a run, as the claims about the export speak of it       *)

Ents == exporter.model.ents

Ids == 1..Len(Ents)

OfClass(c) == {e \in Ids : Ents[e].cls = c}

Storeys == OfClass("IfcBuildingStorey")

SpatialClasses == {"IfcProject", "IfcSite", "IfcBuilding", "IfcBuildingStorey"}

\* the materialized building elements: neither spatial nodes nor openings
Elements == {e \in Ids : Ents[e].cls \notin SpatialClasses \cup {"IfcOpeningElement"}}

WholesOf(part) == {r[1] : r \in {q \in exporter.model.aggregates : q[2] = part}}

ContainersOf(e) == {r[1] : r \in {q \in exporter.model.contained : q[2] = e}}

ElementsIn(s) == {r[2] : r \in {q \in exporter.model.contained : q[1] = s}}

OpeningsOf(e) == {r[2] : r \in {q \in exporter.model.voids : q[1] = e}}

OkReports == {k \in 1..Len(log) : log[k].status = "ok"}

DirectReports == IF prog = "direct" THEN OkReports ELSE {}

\* the entities of the file of report k that the run takes for voids: decoded
\* solid flag 0, not skipped by the classifier
Classified(entity) == DetermineIfcType(entity, entity.layer)

DecodedSolid(entity) == DictGet(ExtractXdataProperties(entity), K_solid).n

VoidsOf(k) ==
    {i \in 1..Len(log[k].content) :
        /\ DecodedSolid(log[k].content[i]) = 0
        /\ Classified(log[k].content[i]) # "SKIP"}

WindowScope(k) == {i \in VoidsOf(k) : Classified(log[k].content[i]) = "IfcWindow"}

GenericScope(k) == VoidsOf(k) \ WindowScope(k)

SolidsOf(k) == ElementsIn(log[k].storey)

WallOrCovering(e) == Ents[e].cls \in {"IfcWall", "IfcCovering"}

\* the openings on element e built from the given void entity
OpeningsFor(e, entity) ==
    {o \in OpeningsOf(e) :
        Ents[o].name = S_Opening_ \o entity.layer \o <<"_">> \o entity.handle}

\* the entities created while the file of report k was processed
SegmentOf(k) ==
    {e \in Ids : /\ e >= log[k].storey
                 /\ \A s \in Storeys : s > log[k].storey => e < s}

----------------------------------------------------------------------------
(* Claims about the Boolean/Opening Resolver of the direct export          *)

\* C1: a void the classifier types as Window has an Opening only on solids
\* typed Wall or Covering of its storey, never on a Column, Beam or Slab.
C1_WindowVoidsOnlyOpenWallsAndCoverings ==
    \A k \in DirectReports : \A e \in SolidsOf(k) : \A i \in WindowScope(k) :
        OpeningsFor(e, log[k].content[i]) # {} => WallOrCovering(e)

\* C2: every solid typed Wall or Covering has exactly one Opening for each
\* void of its storey that the classifier types as Window, whatever the
\* layer names that gave the two classifications.
C2_WallsReceiveEveryWindowVoid ==
    \A k \in DirectReports : \A e \in SolidsOf(k) :
        WallOrCovering(e) =>
            \A i \in WindowScope(k) :
                Cardinality(OpeningsFor(e, log[k].content[i])) = 1

\* C3: every generic void has exactly one Opening on every solid of its
\* storey; the number of Openings of a solid is the number of generic voids
\* plus, for a Wall or Covering, the number of window-scope voids; a solid of
\* a storey without voids has no Opening.
C3_OpeningCount ==
    \A k \in DirectReports : \A e \in SolidsOf(k) :
        /\ \A i \in GenericScope(k) :
              Cardinality(OpeningsFor(e, log[k].content[i])) = 1
        /\ Cardinality(OpeningsOf(e)) =
              Cardinality(GenericScope(k))
              + (IF WallOrCovering(e) THEN Cardinality(WindowScope(k)) ELSE 0)
        /\ VoidsOf(k) = {} => OpeningsOf(e) = {}

WallsOf(k) == {e \in SolidsOf(k) : Ents[e].cls = "IfcWall"}

\* two files read, one Wall each, the only void a Window void of the second
TwoWallsOneWindow ==
    /\ prog = "direct" /\ Len(log) = 2 /\ OkReports = {1, 2}
    /\ Cardinality(WallsOf(1)) = 1 /\ Cardinality(WallsOf(2)) = 1
    /\ VoidsOf(1) = {}
    /\ Cardinality(VoidsOf(2)) = 1 /\ WindowScope(2) = VoidsOf(2)

\* C4: an Opening joins a solid only to a void of the solid's own file; with
\* two files of one Wall each, the only void a Window void of the second
\* file, the first Wall has no Opening and the second has exactly one, built
\* from that void.
C4_OpeningsStayInTheirFile ==
    /\ \A k \in DirectReports : \A e \in SolidsOf(k) : \A o \in OpeningsOf(e) :
          /\ o \in SegmentOf(k)
          /\ \E i \in VoidsOf(k) : o \in OpeningsFor(e, log[k].content[i])
    /\ TwoWallsOneWindow =>
          /\ \A e \in WallsOf(1) : OpeningsOf(e) = {}
          /\ \A e \in WallsOf(2) :
                /\ Cardinality(OpeningsOf(e)) = 1
                /\ \A i \in VoidsOf(2) : OpeningsFor(e, log[2].content[i]) = OpeningsOf(e)

----------------------------------------------------------------------------
(* Claims about the spatial hierarchy                                      *)

\* C5: whatever the order of the input files, the Storeys of the document
\* are created in non-decreasing order of elevation.
C5_StoreysInElevationOrder ==
    \A s1, s2 \in Storeys :
        s1 < s2 => DecLeq(Ents[s1].elevation, Ents[s2].elevation)

\* the number of inputs for which a storey-adding operation has been done
StoreysAdded ==
    IF prog = "direct" THEN Cardinality(OkReports)
    ELSE IF pc = "start" THEN 0
    ELSE IF pc = "storeys" THEN idx - 1
    ELSE Len(processed_data)

C6_Hierarchy ==
    exporter.model.exists =>
        /\ OfClass("IfcProject") = {exporter.project}
        /\ OfClass("IfcSite") = {exporter.site}
        /\ OfClass("IfcBuilding") = {exporter.building}
        /\ WholesOf(exporter.project) = {}
        /\ WholesOf(exporter.site) = {exporter.project}
        /\ WholesOf(exporter.building) = {exporter.site}
        /\ \A s \in Storeys : WholesOf(s) = {exporter.building} /\ ContainersOf(s) = {}
        /\ Cardinality(Storeys) = StoreysAdded
        /\ \A e \in Elements :
              /\ WholesOf(e) = {}
              /\ Cardinality(ContainersOf(e)) = 1
              /\ ContainersOf(e) \subseteq Storeys

C6_Step ==
    exporter.model.exists =>
        /\ exporter'.model.exists
        /\ Len(exporter'.model.ents) >= Len(Ents)
        /\ \A e \in Ids : /\ exporter'.model.ents[e].cls = Ents[e].cls
                          /\ exporter'.model.ents[e].gid = Ents[e].gid
                          /\ exporter'.model.ents[e].elevation = Ents[e].elevation
        /\ \A s \in Storeys \cup Elements : WholesOf(s)' = WholesOf(s)
                                            /\ ContainersOf(s)' = ContainersOf(s)
        /\ StoreysAdded' # StoreysAdded =>
              /\ StoreysAdded' = StoreysAdded + 1
              /\ Cardinality(Storeys' \ Storeys) = 1

\* C6: once the model is created the document holds exactly one Project, one
\* Site under it and one Building under the Site; each input processed adds
\* exactly one new Storey directly under the Building, no Storey is reused
\* or moved, and every Element is contained in exactly one Storey.
C6_OneTreePerDocument == [](C6_Hierarchy) /\ [][C6_Step]_vars

\* the same path given twice: two Storeys, each with an Element of its own
C6_Witness ==
    /\ prog = "direct" /\ pc = "exit"
    /\ Len(log) = 2 /\ OkReports = {1, 2} /\ log[1].path = log[2].path
    /\ Cardinality(Storeys) = 2
    /\ \A s \in Storeys : ElementsIn(s) # {}

\* C7: every Element has a placement relative to its Storey whose local Z is
\* the element's relative elevation, and its resolved base Z (storey
\* placement Z + local Z + extrusion position Z) is the storey elevation plus
\* the relative elevation.
C7_PlacementCarriesRelativeElevation ==
    \A s \in Storeys : \A e \in ElementsIn(s) :
        /\ Ents[e].placement.has
        /\ Ents[e].placement.rel_to = s
        /\ Ents[e].placement.z = Ents[e].z_relative
        /\ DecAdd(DecAdd(Ents[s].placement.z, Ents[e].placement.z), Ents[e].rep.posZ)
              = DecAdd(Ents[s].elevation, Ents[e].z_relative)

----------------------------------------------------------------------------
(* Claims about the Profile Builder                                        *)

Coincide(p, q) ==
    /\ DecLess(DecAbs(DecSub(p[1], q[1])), ClosureTolerance)
    /\ DecLess(DecAbs(DecSub(p[2], q[2])), ClosureTolerance)

ClosedForm(points) ==
    IF Coincide(points[1], points[Len(points)]) THEN points
    ELSE Append(points, points[1])

InUnits(points) ==
    [i \in 1..Len(points) |->
        <<DecMul(points[i][1], exporter.length_conversion),
          DecMul(points[i][2], exporter.length_conversion)>>]

\* the entities of the document written from the given input of report k
WrittenFrom(k, i) ==
    IF prog = "direct"
    THEN {e \in Ids : \/ Ents[e].name = log[k].content[i].layer \o <<"_">>
                                          \o log[k].content[i].handle
                      \/ Ents[e].name = S_Opening_ \o log[k].content[i].layer \o <<"_">>
                                          \o log[k].content[i].handle}
    ELSE {e \in Ids : Ents[e].name = log[k].content[i].mesh_name}

PointsOf(k, i) ==
    IF prog = "direct" THEN log[k].content[i].points ELSE log[k].content[i].vertices

\* C8: a profile written from a sequence of at least 2 points is that
\* sequence, followed by a copy of its first point when first and last
\* differ by 0.001 or more; no written profile has first and last points
\* that do not coincide.
C8_WrittenProfilesAreClosed ==
    /\ \A k \in OkReports : \A i \in 1..Len(log[k].content) : \A e \in WrittenFrom(k, i) :
          (Len(PointsOf(k, i)) >= 2 /\ Ents[e].rep.type # "None") =>
              Ents[e].rep.points = ClosedForm(InUnits(PointsOf(k, i)))
    /\ \A e \in Ids :
          Len(Ents[e].rep.points) >= 2 =>
              Coincide(Ents[e].rep.points[1], Ents[e].rep.points[Len(Ents[e].rep.points)])

----------------------------------------------------------------------------
(* SpecZ: extract_global_z_from_filename applied to every identifier of at *)
(* most MaxIdLen characters over IdChars                                   *)

MaxIdLen == 7

IdChars == {"a", "_", ".", "-", "1"}

Identifiers == UNION {[1..n -> IdChars] : n \in 1..MaxIdLen}

ZInit ==
    /\ XIdle /\ DIdle /\ GIdle /\ WIdle
    /\ zident \in Identifiers
    /\ zpc = "call"
    /\ zres = ZeroF

ZExtract ==
    /\ zpc = "call"
    /\ zres' = ExtractGlobalZ(zident)
    /\ zpc' = "ret"
    /\ UNCHANGED <<zident, xvars, dvars, gvars, wvars>>

ZNext == ZExtract

SpecZ == ZInit /\ [][ZNext]_vars

----------------------------------------------------------------------------
(* The shapes of text the claims about the elevation convention speak of,  *)
(* stated without the matcher                                              *)

IsDigits(g) == g # <<>> /\ \A i \in 1..Len(g) : g[i] \in Digits

Unsigned(g) == IF g # <<>> /\ g[1] = "-" THEN SubSeq(g, 2, Len(g)) ELSE g

\* -?digits
IsInteger(g) == IsDigits(Unsigned(g))

\* -?digits.digits
IsDecimal(g) ==
    LET u == Unsigned(g)
    IN  \E d \in 1..Len(u) :
            /\ u[d] = "."
            /\ IsDigits(SubSeq(u, 1, d - 1))
            /\ IsDigits(SubSeq(u, d + 1, Len(u)))

\* -?digits, -?digits. or -?digits.digits
IsNumber(g) ==
    \/ IsInteger(g)
    \/ IsDecimal(g)
    \/ (g # <<>> /\ g[Len(g)] = "." /\ IsInteger(SubSeq(g, 1, Len(g) - 1)))

IsLetters(g) ==
    g # <<>> /\ \A i \in 1..Len(g) : g[i] \notin Digits \cup {"_", ".", "-", "/"}

\* pattern k of the priority list occurs somewhere in s
PatternOccurs(k, s) ==
    CASE k = 1 -> \E i, j \in 1..Len(s) :
                     i < j /\ s[i] \in {".", "_"} /\ s[j] \in {".", "_"}
                           /\ IsDecimal(SubSeq(s, i + 1, j - 1))
      [] k = 2 -> \E i, j \in 1..Len(s) :
                     i < j /\ s[i] \in {".", "_"} /\ s[j] \in {".", "_"}
                           /\ IsNumber(SubSeq(s, i + 1, j - 1))
      [] k = 3 -> \E i \in 1..Len(s) :
                     s[i] = "_" /\ IsDecimal(SubSeq(s, i + 1, Len(s)))
      [] k = 4 -> \E i \in 1..Len(s) :
                     s[i] = "_" /\ IsInteger(SubSeq(s, i + 1, Len(s)))

ZBase == SplitExtRoot(Basename(zident))

ZOccurring == {k \in 1..Len(Patterns) : PatternOccurs(k, ZBase)}

\* C9: for an identifier name_<elevation>.ext whose <elevation> is a decimal
\* number, extract_global_z_from_filename returns exactly that decimal.
\* (The statement of the claim; the code violates it, e.g. on a_1.1.a.)
C9_ReturnsDecimalExactly ==
    zpc = "ret" =>
        \A i, j \in 1..Len(zident) :
            ( /\ i < j
              /\ zident[i] = "_" /\ zident[j] = "."
              /\ IsLetters(SubSeq(zident, 1, i - 1))
              /\ IsLetters(SubSeq(zident, j + 1, Len(zident)))
              /\ IsDecimal(SubSeq(zident, i + 1, j - 1)) )
            => zres = ParseFloat(SubSeq(zident, i + 1, j - 1))

\* C10: the result is the number captured by the first pattern, in priority
\* order, that occurs in the extension-stripped base name, and 0.0 when no
\* pattern occurs; the call always returns a number.
C10_FirstPatternWins ==
    zpc = "ret" =>
        LET occurring == ZOccurring
            first == Search(Patterns[CHOOSE k \in occurring : \A l \in occurring : k <= l],
                            ZBase)
        IN  /\ zres \in Int \X Nat
            /\ IF occurring = {}
               THEN zres = ZeroF
               ELSE first.found /\ zres = ParseFloat(first.group)

\* C10 witness: patterns 1 and 4 both occur, with different captures, and
\* the call returned the capture of pattern 1 (as in _1.1_1)
C10_Witness ==
    /\ zpc = "ret"
    /\ PatternOccurs(1, ZBase) /\ PatternOccurs(4, ZBase)
    /\ ParseFloat(Search(Patterns[1], ZBase).group)
         # ParseFloat(Search(Patterns[4], ZBase).group)
    /\ zres = ParseFloat(Search(Patterns[1], ZBase).group)

----------------------------------------------------------------------------
(* SpecD: _extract_xdata_properties, _determine_ifc_type and               *)
(* process_dxf_file applied to one DXF entity.  The entity is either a     *)
(* polyline on the layer "wall" with every stream of at most MaxItems      *)
(* items of ItemCatalog, given to one or two applications, or an entity of *)
(* one of DKinds on every layer made of at most MaxTokens of LayerTokens.  *)

MaxItems == 3

MaxTokens == 2

X_height_2_5 == XStr(<<"h", "e", "i", "g", "h", "t", ":", "2", ".", "5">>)

X_solid_0 == XStr(<<"s", "o", "l", "i", "d", ":", "0">>)

Real_4_0 == XReal(<<4, 0>>)

ItemCatalog ==
    {X_height_2_5, X_solid_0, Real_4_0, XRealBad, XInt(0), XInt(2)}

Streams == UNION {[1..n -> ItemCatalog] : n \in 0..MaxItems}

\* the extended data of an entity whose first p items belong to the
\* application ACAD and the others to QCAD
SplitStream(items, p) ==
    (IF p > 0 THEN <<[app |-> "ACAD", items |-> SubSeq(items, 1, p)]>> ELSE <<>>)
    \o (IF p < Len(items)
        THEN <<[app |-> "QCAD", items |-> SubSeq(items, p + 1, Len(items))]>>
        ELSE <<>>)

L_wall == <<"w", "a", "l", "l">>

Outline == <<Pt(0, 0), Pt(1, 0), Pt(1, 1)>>

DecoderEntities ==
    UNION { {DxfEntity("LWPOLYLINE", L_wall, SplitStream(items, p), Outline) :
                p \in 0..Len(items)} : items \in Streams }

LayerTokens == {<<"w", "a", "l", "l">>, <<"w", "i", "n", "d", "o", "w", "_">>, <<"d", "o", "o", "r">>, <<"W", "a", "l", "l">>, <<"x">>, <<"s">>}

RECURSIVE Flatten(_)
Flatten(parts) == IF parts = <<>> THEN <<>> ELSE Head(parts) \o Flatten(Tail(parts))

Layers == {Flatten(parts) : parts \in UNION {[1..n -> LayerTokens] : n \in 1..MaxTokens}}

DKinds == {"LWPOLYLINE", "TEXT", "DIMENSION", "INSERT"}

ClassifierEntities ==
    {DxfEntity(kind, layer, xdata, IF kind = "LWPOLYLINE" THEN Outline ELSE <<>>) :
        kind \in DKinds, layer \in Layers, xdata \in {<<>>, QCAD(<<X_solid_0>>)}}

\* circles, arcs and entities of the kinds without outline, with and
\* without the attributes their geometry is made from, solid and void
ShapeKinds == {"CIRCLE", "ARC", "3DFACE", "3DSOLID", "MESH"}

ShapeEntities ==
    {[DxfEntity(kind, layer, xdata, <<>>) EXCEPT !.attrs = attrs] :
        kind \in ShapeKinds, layer \in {L_wall, <<"0">>},
        xdata \in {<<>>, QCAD(<<X_solid_0>>)},
        attrs \in {{}, {"center", "radius"}, {"bounding_box"}}}

\* streams of a single application with string items whose value is not a
\* number
X_height_x == XStr(<<"h", "e", "i", "g", "h", "t", ":", "x">>)

X_solid_x == XStr(<<"s", "o", "l", "i", "d", ":", "x">>)

X_z_x == XStr(<<"z", ":", "x">>)

MalformedCatalog == {X_height_x, X_solid_x, X_z_x, X_height_2_5, X_solid_0}

MalformedEntities ==
    {DxfEntity("LWPOLYLINE", L_wall, QCAD(items), Outline) :
        items \in UNION {[1..n -> MalformedCatalog] : n \in 1..MaxItems}}

\* entities with the data of two applications, in each order of their
\* application identifiers
Real_3_0 == XReal(<<3, 0>>)

AppStreams == {<<Real_3_0>>, <<Real_4_0>>, <<XInt(0)>>, <<XInt(1)>>, <<X_height_2_5>>}

AppNames == {"QCAD", "ACAD", "BIM"}

AppOrderEntities ==
    {DxfEntity("LWPOLYLINE", L_wall,
               <<[app |-> pair[1], items |-> first], [app |-> pair[2], items |-> second]>>,
               Outline) :
        pair \in {q \in AppNames \X AppNames : q[1] # q[2]},
        first \in AppStreams, second \in AppStreams}

DInit ==
    /\ XIdle /\ ZIdle /\ GIdle /\ WIdle
    /\ dent \in DecoderEntities \cup ClassifierEntities \cup MalformedEntities
                \cup AppOrderEntities \cup ShapeEntities
    /\ \/ dunit \in UnitSystems
       \/ dunit \in UnitArguments \ UnitSystems /\ dent \in ShapeEntities
    /\ dpc = "call"
    /\ dret = NoReturn

\* xdata_props = self._extract_xdata_properties(entity)
DExtract ==
    /\ dpc = "call"
    /\ dret' = [dret EXCEPT !.props = ExtractXdataProperties(dent)]
    /\ dpc' = "decoded"
    /\ UNCHANGED <<dent, dunit, xvars, zvars, gvars, wvars>>

\* ifc_type = self._determine_ifc_type(entity, layer)
DDetermine ==
    /\ dpc = "decoded"
    /\ dret' = [dret EXCEPT !.ifc_type = DetermineIfcType(dent, dent.layer)]
    /\ dpc' = "typed"
    /\ UNCHANGED <<dent, dunit, xvars, zvars, gvars, wvars>>

\* process_dxf_file of a file that holds a wall on the layer IfcWall and
\* the entity, by a new exporter of the unit system dunit
DProcess ==
    /\ dpc = "typed"
    /\ dret' = [dret EXCEPT !.exporter =
                   ProcessDxfFile(CreateIfcModel(DirectIfcExporterInit(dunit)), F_b3,
                                  Msp(<<E_IfcWall, dent>>))]
    /\ dpc' = "processed"
    /\ UNCHANGED <<dent, dunit, xvars, zvars, gvars, wvars>>

DNext == DExtract \/ DDetermine \/ DProcess

SpecD == DInit /\ [][DNext]_vars

----------------------------------------------------------------------------
(* Claims about the Attribute Extractor and the Element Classifier         *)

DDecoded == dpc \in {"decoded", "typed", "processed"}

DTyped == dpc \in {"typed", "processed"}

\* the items of the entity in encounter order
DItems == Flatten([g \in 1..Len(dent.xdata) |-> dent.xdata[g].items])

\* the extended data cut after its first n items
RECURSIVE TakeItems(_, _)
TakeItems(xdata, n) ==
    IF xdata = <<>> THEN <<>>
    ELSE <<[Head(xdata) EXCEPT !.items =
                SubSeq(@, 1, IF n < Len(@) THEN n ELSE Len(@))]>>
         \o TakeItems(Tail(xdata),
                      IF n < Len(Head(xdata).items) THEN 0 ELSE n - Len(Head(xdata).items))

\* the fields set once the first n items have been met
DecodedUpTo(n) ==
    DecodeApps(<<>>, [dent EXCEPT !.xdata = TakeItems(@, n)], AppIds(dent.appids), 1)

DecodedByStream == DecodedUpTo(Len(DItems))

DecodedFields == {K_height, K_solid, K_name, K_z_relative}

\* C11: when the items of the entity are the string item "height:2.5" and
\* any number of real items (code 1040) of another value, before or after
\* it, the decoded height is 2.5.
C11_StringHeightWinsOverReals ==
    DDecoded =>
        ( ( /\ \E i \in 1..Len(DItems) : DItems[i] = X_height_2_5
            /\ \A i \in 1..Len(DItems) :
                  \/ DItems[i] = X_height_2_5
                  \/ ( /\ DItems[i].code = 1040 /\ DItems[i].numeric
                       /\ DItems[i].r # <<25, 1>> ) )
          => DictGet(dret.props, K_height) = FloatVal(<<25, 1>>) )

\* C11 witness: a real item 4.0 before and after the string item
C11_Witness ==
    /\ DDecoded
    /\ DItems = <<Real_4_0, X_height_2_5, Real_4_0>>
    /\ DictGet(dret.props, K_height) = FloatVal(<<25, 1>>)

\* C12: once an item has set a field (height, solid, name, relative z), no
\* later item of any code or application changes its value.
\* (The statement of the claim; the code violates it, e.g. on the real
\* item 4.0 followed by the string item "height:2.5".)
C12_SetFieldsAreNeverOverwritten ==
    DDecoded =>
        /\ \A n \in 1..Len(DItems) : \A key \in DecodedFields :
              DictHas(DecodedUpTo(n - 1), key) =>
                  DictGet(DecodedUpTo(n), key) = DictGet(DecodedUpTo(n - 1), key)
        /\ \A key \in DecodedFields :
              DictHas(DecodedByStream, key) =>
                  DictGet(dret.props, key) = DictGet(DecodedByStream, key)

MentionsHeight(item) ==
    \/ item.code = 1040
    \/ item.code = 1000 /\ StartsWith(item.s, <<"h", "e", "i", "g", "h", "t", ":">>)

MentionsSolid(item) ==
    \/ item.code = 1071
    \/ item.code = 1000 /\ StartsWith(item.s, <<"s", "o", "l", "i", "d", ":">>)

\* the length factor of the unit system
DFactor == IF dunit = "imperial" THEN <<328084, 5>> ELSE <<1, 0>>

DDoc == dret.exporter.model

\* the name process_dxf_file gives the entity, the second of its file
DName == dent.layer \o <<"_", "2">>

\* the elements and the openings written from the entity
DWritten == {e \in 1..Len(DDoc.ents) : DDoc.ents[e].name = DName}

DOpenings == {e \in 1..Len(DDoc.ents) : DDoc.ents[e].name = <<"O", "p", "e", "n", "i", "n", "g", "_">> \o DName}

DHits == {i \in 1..Len(layer_mapping) : Contains(layer_mapping[i].key, Lower(dent.layer))}

\* C14: the type is that of the first entry, in table order, whose synonym
\* is a substring of the lower-cased layer name; without such an entry it
\* is Skip for TEXT, MTEXT and DIMENSION and GenericProxy for every other
\* kind; an entity classified Skip gives no Element and no Opening.
C14_FirstSynonymDecides ==
    /\ DTyped =>
          dret.ifc_type =
              IF DHits # {}
              THEN layer_mapping[CHOOSE i \in DHits : \A h \in DHits : i <= h].ifc_type
              ELSE IF dent.dxftype \in {"TEXT", "MTEXT", "DIMENSION"} THEN "SKIP"
              ELSE "IfcBuildingElementProxy"
    /\ (dpc = "processed" /\ dret.ifc_type = "SKIP") =>
          DWritten = {} /\ DOpenings = {}

\* C14 witness: the layer window_wall holds the synonyms of a Wall and of a
\* Window; the entity, flagged as a void, is typed Wall and cuts the wall of
\* its file
C14_Witness ==
    /\ dpc = "processed"
    /\ dent.layer = <<"w", "i", "n", "d", "o", "w", "_", "w", "a", "l", "l">>
    /\ Cardinality(DHits) > 1
    /\ dret.ifc_type = "IfcWall"
    /\ DOpenings # {}

----------------------------------------------------------------------------
(* Claims about the unit conversion and the identifiers of a document      *)

NumberOf(val) == IF val.t = "int" THEN <<val.n, 0>> ELSE val.f

PsetsOn(e) == {q \in 1..Len(exporter.model.psets) : exporter.model.psets[q].element = e}

\* C15: one length factor is applied to every extrusion depth, base
\* elevation, storey elevation, profile coordinate and every elevation- or
\* length-valued property, the relative-elevation attribute included.
\* (The statement of the claim; the code writes the property z_relative
\* unconverted under imperial units.)
C15_OneLengthFactorEverywhere ==
    \A k \in DirectReports :
        /\ Ents[log[k].storey].elevation
              = DecMul(ExtractGlobalZ(log[k].path), exporter.length_conversion)
        /\ \A i \in 1..Len(log[k].content) : \A e \in WrittenFrom(k, i) \cap SegmentOf(k) :
              /\ Ents[e].rep.type = "SweptSolid" =>
                    /\ Ents[e].rep.depth
                          = DecMul(NumberOf(DictGet(ExtractXdataProperties(log[k].content[i]),
                                                    K_height)),
                                   exporter.length_conversion)
                    /\ Ents[e].rep.posZ
                          = DecMul(ExtractGlobalZ(log[k].path),
                                   exporter.length_conversion)
                    /\ \A j \in 1..Len(log[k].content[i].points) :
                          Ents[e].rep.points[j] = InUnits(log[k].content[i].points)[j]
              /\ \A q \in PsetsOn(e) :
                    \A j \in 1..Len(exporter.model.psets[q].props) :
                        exporter.model.psets[q].props[j].key \in {K_height, K_z_relative} =>
                            exporter.model.psets[q].props[j].val
                              = FloatVal(DecMul(
                                    NumberOf(DictGet(ExtractXdataProperties(log[k].content[i]),
                                                     exporter.model.psets[q].props[j].key)),
                                    exporter.length_conversion))

\* every GlobalId of the document: of the rooted entities, of the property
\* sets and of the relationships that attach them
GlobalIds ==
    [e \in Ids |-> Ents[e].gid]
    \o [q \in 1..Len(exporter.model.psets) |-> exporter.model.psets[q].gid]
    \o [q \in 1..Len(exporter.model.psets) |-> exporter.model.psets[q].rel_gid]

\* C16: the entities of a document that carry an identifier have pairwise
\* distinct GlobalIds, also when element records supply their own uuid and
\* when records are duplicated.
\* (The statement of the claim; the code gives two records of the same uuid
\* the same GlobalId.)
C16_GlobalIdsAreDistinct ==
    \A a, b \in 1..Len(GlobalIds) : GlobalIds[a] = GlobalIds[b] => a = b

----------------------------------------------------------------------------
(* Claims about the runs: exit status and files that fail                  *)

Exited == pc = "exit"

ValidUnit == prog = "direct" => exporter.unit_system \in UnitSystems

\* C19: a run exits with status 0 only when the document was written from
\* at least one input that resolved and was processed; the status is not 0
\* when the IFC capability is unavailable, the unit argument is invalid, no
\* input resolves, or the write fails.
\* (The statement of the claim; the direct export exits with 0 after writing
\* a document from no input.)
C19_ZeroOnlyForWrittenDocument ==
    Exited =>
        /\ exit_status = 0 => (output = "written" /\ OkReports # {})
        /\ ~IFC_AVAILABLE => exit_status # 0
        /\ ~ValidUnit => exit_status # 0
        /\ OkReports = {} => exit_status # 0
        /\ output # "written" => exit_status # 0

\* a step that reports a file as missing or failed
FileFails ==
    /\ Len(log') = Len(log) + 1
    /\ log'[Len(log')].status # "ok"

C20_Step ==
    [][FileFails =>
          /\ exporter' = exporter /\ processed_data' = processed_data
          /\ pc' = pc /\ idx' = idx + 1
          /\ exit_status' = exit_status /\ output' = output]_vars

C20_AtExit ==
    (Exited /\ IFC_AVAILABLE /\ ValidUnit) =>
        /\ Len(log) = Len(argv)
        /\ \A k \in 1..Len(log) : log[k].path = argv[k]
        /\ (prog = "direct" \/ OkReports # {}) =>
              /\ output # "none"
              /\ Cardinality(Storeys) = Cardinality(OkReports)

----------------------------------------------------------------------------
(* SpecG: parse_xml_and_generate_ifc (graph_to_glb.py) on a diagram with   *)
(* one room.  groom is what the diagram says of the room: the targets of   *)
(* its edges in declaration order (the label of the object an edge points  *)
(* to), whether it has a room object, the Levels attribute of the object   *)
(* and the levels cell of its table row as texts, its offset_interior, and *)
(* what shapely's interior offset of its polygon is: whether it is valid   *)
(* and not empty, and how far its minimum corner lies inside the minimum   *)
(* corner of the polygon.  gout is what the functions have built: the      *)
(* level list and the points of the room, the storeys, the spaces, the     *)
(* position of the loop in the level list, and the meshes of               *)
(* export_to_glb.                                                          *)

MaxEdges == 4

\* x_coords and y_coords of the Axes cell
x_coords == <<0, 1, 2>>

y_coords == <<0, 1, 2>>

\* nodes[node_index] with node_index = j * len(x_coords) + i
nodes ==
    [node_index \in 0..(Len(x_coords) * Len(y_coords) - 1) |->
        <<x_coords[(node_index % Len(x_coords)) + 1],
          y_coords[(node_index \div Len(x_coords)) + 1]>>]

\* the connected nodes: the targets that are nodes of the grid, in the
\* order of the edges
ConnectedNodes(edges) == SelectSeq(edges, LAMBDA target : target \in DOMAIN nodes)

RECURSIVE SumOf(_, _)
SumOf(coords, axis) ==
    IF coords = <<>> THEN 0 ELSE Head(coords)[axis] + SumOf(Tail(coords), axis)

\* the vector from the centroid of coords to point, times len(coords): the
\* angle of math.atan2 is that of this vector
FromCentroid(point, coords) ==
    <<Len(coords) * point[1] - SumOf(coords, 1),
      Len(coords) * point[2] - SumOf(coords, 2)>>

\* where math.atan2(v[2], v[1]) lies: 1 in (-pi, 0), 2 at 0 (also for the
\* zero vector), 3 in (0, pi), 4 at pi
AngleRange(v) ==
    IF v[2] < 0 THEN 1
    ELSE IF v[2] > 0 THEN 3
    ELSE IF v[1] >= 0 THEN 2 ELSE 4

\* math.atan2 of v is less than math.atan2 of w
AngleLess(v, w) ==
    IF AngleRange(v) # AngleRange(w) THEN AngleRange(v) < AngleRange(w)
    ELSE IF AngleRange(v) \in {2, 4} THEN FALSE
    ELSE v[1] * w[2] - v[2] * w[1] > 0

\* list.sort(key=angle_from_centroid) is stable: a point goes after the
\* points already placed whose angle is not greater
RECURSIVE InsertByAngle(_, _, _)
InsertByAngle(sorted, point, coords) ==
    IF sorted = <<>> THEN <<point>>
    ELSE IF AngleLess(FromCentroid(point, coords),
                      FromCentroid(sorted[Len(sorted)], coords))
         THEN Append(InsertByAngle(SubSeq(sorted, 1, Len(sorted) - 1), point, coords),
                     sorted[Len(sorted)])
         ELSE Append(sorted, point)

RECURSIVE SortByAngle(_, _, _)
SortByAngle(sorted, rest, coords) ==
    IF rest = <<>> THEN sorted
    ELSE SortByAngle(InsertByAngle(sorted, Head(rest), coords), Tail(rest), coords)

NodeCoords(connected_nodes) ==
    [i \in 1..Len(connected_nodes) |-> nodes[connected_nodes[i]]]

\* rooms[room_code]['points']
RoomPoints(connected_nodes) ==
    IF Len(connected_nodes) >= 3
    THEN SortByAngle(<<>>, NodeCoords(connected_nodes), NodeCoords(connected_nodes))
    ELSE <<>>

level_names == <<"Level01", "Level02", "Level03">>

elevations == <<<<0, 0>>, <<280, 2>>, <<560, 2>>>>

ElevationTolerance == <<1, 2>>      \* 0.01

LevelStoreys ==
    [i \in 1..Len(level_names) |-> [name |-> level_names[i], elevation |-> elevations[i]]]

\* the storey a space of elevation level_z is assigned to: the first one
\* within the tolerance, the first storey when there is none
AssignedStorey(storeys, level_z) ==
    IF \E s \in 1..Len(storeys) :
          DecLess(DecAbs(DecSub(storeys[s].elevation, level_z)), ElevationTolerance)
    THEN CHOOSE s \in 1..Len(storeys) :
            /\ DecLess(DecAbs(DecSub(storeys[s].elevation, level_z)), ElevationTolerance)
            /\ \A t \in 1..(s - 1) :
                  ~DecLess(DecAbs(DecSub(storeys[t].elevation, level_z)), ElevationTolerance)
    ELSE 1

RECURSIVE MinOf(_, _)
MinOf(coords, axis) ==
    IF Len(coords) = 1 THEN coords[1][axis]
    ELSE IF Head(coords)[axis] <= MinOf(Tail(coords), axis) THEN Head(coords)[axis]
    ELSE MinOf(Tail(coords), axis)

\* min(x for x, y in offset_coords): the minimum of the offset polygon on an
\* axis, inset from the minimum of the polygon
OffsetMin(points, inset, axis) == DecAdd(<<MinOf(points, axis), 0>>, inset[axis])

\* the IfcSpace of the room at level_idx: its profile is relative to origin,
\* the minimum corner of the offset polygon, and its placement is relative
\* to the placement of the storey rel_to
Space(points, storeys, level_idx, inset) ==
    [level     |-> level_idx,
     storey    |-> AssignedStorey(storeys, elevations[level_idx + 1]),
     rel_to    |-> level_idx + 1,
     origin    |-> <<OffsetMin(points, inset, 1), OffsetMin(points, inset, 2)>>,
     placement |-> <<<<MinOf(points, 1), 0>>, <<MinOf(points, 2), 0>>, <<0, 0>>>>]

\* the mesh of the room at level_idx: its vertices are relative to the
\* minimum corner of the offset polygon and translated by it
Mesh(points, level_idx, inset) ==
    [level       |-> level_idx,
     translation |-> <<OffsetMin(points, inset, 1), OffsetMin(points, inset, 2),
                       elevations[level_idx + 1]>>]

\* s.split(',')
RECURSIVE SplitComma(_)
SplitComma(s) ==
    IF IndexOf(s, ",") = 0 THEN <<s>>
    ELSE <<SubSeq(s, 1, IndexOf(s, ",") - 1)>>
           \o SplitComma(SubSeq(s, IndexOf(s, ",") + 1, Len(s)))

\* [int(x.strip()) for x in text.split(',')], [0] on ValueError
ParseLevels(text) ==
    IF \A i \in 1..Len(SplitComma(text)) : IntOk(SplitComma(text)[i])
    THEN [i \in 1..Len(SplitComma(text)) |-> IntOf(SplitComma(text)[i])]
    ELSE <<0>>

\* the levels of the table row: cells[3] when there is one
TableLevels(cell) == IF Strip(cell) # <<>> THEN ParseLevels(cell) ELSE <<0>>

\* the levels of the room object: its Levels attribute when there is one
ObjectLevels(levels_str) == IF levels_str # <<>> THEN ParseLevels(levels_str) ELSE <<0>>

\* the levels of the table row kept when the row declares some
RoomLevelsTableFirst(room) ==
    IF room.has_object /\ Strip(room.table_levels) = <<>>
    THEN ObjectLevels(room.Levels)
    ELSE TableLevels(room.table_levels)

\* rooms[room_code]['levels'] after the table rows and the room objects
RoomLevels(room) ==
    IF room.has_object THEN ObjectLevels(room.Levels) ELSE TableLevels(room.table_levels)

\* rooms[room_code]['points']: only a room object has connections
RoomPolygon(room) ==
    IF room.has_object THEN RoomPoints(ConnectedNodes(room.edges)) ELSE <<>>

\* the meshes of export_to_glb for the levels from position k on
RECURSIVE Meshes(_, _, _, _)
Meshes(room, points, levels, k) ==
    IF points = <<>> \/ k > Len(levels) THEN <<>>
    ELSE IF levels[k] < 0 \/ levels[k] >= Len(elevations) \/ ~room.offset_valid
         THEN Meshes(room, points, levels, k + 1)
    ELSE <<Mesh(points, levels[k], room.inset)>> \o Meshes(room, points, levels, k + 1)

\* the targets of the edges: five nodes of the grid and a label that is no
\* node of it
Targets == {0, 1, 2, 4, 7, 9}

EdgeLists == UNION {[1..n -> Targets] : n \in 0..MaxEdges}

\* the Levels attribute: absent, two levels, an index repeated, indices
\* without a storey, a text that is no list of integers, a negative index
\* with blanks
LevelTexts ==
    {<<>>, <<"0", ",", "1">>, <<"0", ",", "0">>, <<"2", ",", "3">>,
     <<"1", ",", "x">>, <<"-", "1", ",", " ", "1">>}

\* the levels cell of the table row: absent, one level, two levels
TableTexts == {<<>>, <<"1">>, <<"0", ",", "2">>}

DefaultOffset == <<125, 3>>      \* offset_interior: '0.125'

\* shapely's interior offset of the polygon: invalid or empty; for the
\* default offset_interior its minimum lies the offset inside the minimum of
\* the polygon on an axis where an edge of the polygon is the minimum, and
\* further inside where a vertex is; for offset_interior 0 it is the polygon
Offsets ==
    {[offset_interior |-> DefaultOffset, offset_valid |-> FALSE,
      inset |-> <<<<0, 0>>, <<0, 0>>>>],
     [offset_interior |-> DefaultOffset, offset_valid |-> TRUE,
      inset |-> <<DefaultOffset, DefaultOffset>>],
     [offset_interior |-> DefaultOffset, offset_valid |-> TRUE,
      inset |-> <<<<25, 2>>, DefaultOffset>>],
     [offset_interior |-> <<0, 0>>, offset_valid |-> TRUE,
      inset |-> <<<<0, 0>>, <<0, 0>>>>]}

Room(edges, has_object, levels_str, cell, offset) ==
    [edges |-> edges, has_object |-> has_object, Levels |-> levels_str,
     table_levels |-> cell, offset_interior |-> offset.offset_interior,
     offset_valid |-> offset.offset_valid, inset |-> offset.inset]

\* rooms with a room object, the default levels and every list of edges
PolygonRooms ==
    {Room(edges, TRUE, <<>>, <<>>, offset) :
        edges \in EdgeLists,
        offset \in {o \in Offsets : o.offset_interior = DefaultOffset
                                    /\ o.inset[1] = o.inset[2]}}

\* rooms on a triangle or on one node, with every text of levels
LevelRooms ==
    {Room(edges, TRUE, levels_str, cell, offset) :
        edges \in {<<0, 1, 4>>, <<1>>}, levels_str \in LevelTexts,
        cell \in TableTexts, offset \in Offsets}

\* rooms of the table without a room object
TableRooms ==
    {Room(<<>>, FALSE, <<>>, cell, offset) :
        cell \in TableTexts, offset \in {o \in Offsets : ~o.offset_valid}}

\* three of the points are not on one line
HasArea(coords) ==
    \E a, b, c \in 1..Len(coords) :
        (coords[b][1] - coords[a][1]) * (coords[c][2] - coords[a][2])
          # (coords[b][2] - coords[a][2]) * (coords[c][1] - coords[a][1])

\* the interior offset of a polygon without area is empty
GInit ==
    /\ XIdle /\ ZIdle /\ DIdle /\ WIdle
    /\ groom \in PolygonRooms \cup LevelRooms \cup TableRooms
    /\ groom.offset_valid => HasArea(NodeCoords(ConnectedNodes(groom.edges)))
    /\ gpc = "call"
    /\ gout = NoOutput

\* Steps 6 and 8: the row of the room in the table and its room object
GReadRoom ==
    /\ gpc = "call"
    /\ gout' = [gout EXCEPT !.levels = RoomLevels(groom)]
    /\ gpc' = "room"
    /\ UNCHANGED <<groom, xvars, zvars, dvars, wvars>>

\* Step 8: the connections of the room and its points
GConnect ==
    /\ gpc = "room"
    /\ gout' = [gout EXCEPT !.points = RoomPolygon(groom)]
    /\ gpc' = "connected"
    /\ UNCHANGED <<groom, xvars, zvars, dvars, wvars>>

\* Step 9: the IFC file with its storeys
GCreateStoreys ==
    /\ gpc = "connected"
    /\ gout' = [gout EXCEPT !.storeys = LevelStoreys, !.next = 1]
    /\ gpc' = "spaces"
    /\ UNCHANGED <<groom, xvars, zvars, dvars, wvars>>

\* the loop over the levels: the index names no storey, or the offset
\* polygon is invalid or empty
GSkipLevel ==
    /\ gpc = "spaces" /\ gout.points # <<>>
    /\ gout.next <= Len(gout.levels)
    /\ \/ gout.levels[gout.next] < 0
       \/ gout.levels[gout.next] >= Len(elevations)
       \/ ~groom.offset_valid
    /\ gout' = [gout EXCEPT !.next = @ + 1]
    /\ UNCHANGED <<groom, gpc, xvars, zvars, dvars, wvars>>

\* the loop over the levels: a space is created and assigned to its storey
GCreateSpace ==
    /\ gpc = "spaces" /\ gout.points # <<>>
    /\ gout.next <= Len(gout.levels)
    /\ gout.levels[gout.next] >= 0
    /\ gout.levels[gout.next] < Len(elevations)
    /\ groom.offset_valid
    /\ gout' = [gout EXCEPT
                  !.spaces = Append(@, Space(gout.points, gout.storeys,
                                             gout.levels[gout.next], groom.inset)),
                  !.next = @ + 1]
    /\ UNCHANGED <<groom, gpc, xvars, zvars, dvars, wvars>>

\* the room has no points, or its levels are done: ifcfile.write
GWrite ==
    /\ gpc = "spaces"
    /\ gout.points = <<>> \/ gout.next > Len(gout.levels)
    /\ gpc' = "written"
    /\ UNCHANGED <<groom, gout, xvars, zvars, dvars, wvars>>

\* export_to_glb on the same diagram: it reads the room again and builds
\* one mesh per level
GExportGlb ==
    /\ gpc = "written"
    /\ gout' = [gout EXCEPT !.meshes = Meshes(groom, RoomPolygon(groom), RoomLevels(groom), 1)]
    /\ gpc' = "exported"
    /\ UNCHANGED <<groom, xvars, zvars, dvars, wvars>>

GNext ==
    \/ GReadRoom \/ GConnect \/ GCreateStoreys \/ GSkipLevel \/ GCreateSpace
    \/ GWrite \/ GExportGlb

SpecG == GInit /\ [][GNext]_vars

----------------------------------------------------------------------------
(* Claims about the rooms of a diagram                                     *)

GConnected == gpc \notin {"call", "room"}

\* the edge list with the edges q and q + 1 declared in the other order
SwapEdges(edges, q) ==
    [i \in 1..Len(edges) |->
        IF i = q THEN edges[q + 1] ELSE IF i = q + 1 THEN edges[q] ELSE edges[i]]

\* C17: the points of a room connected to at least 3 nodes are the positions
\* of the connected nodes in ascending order of angle about their centroid,
\* and they are the same for every order in which the edges are declared
\* (stated for the exchange of two neighbouring edges, which generates every
\* order); a room connected to fewer than 3 nodes has no points and no
\* Space.
\* (The statement of the claim; the code leaves nodes of equal angle in the
\* order of their edges.)
C17_PolygonOrderIgnoresEdgeOrder ==
    GConnected =>
        /\ Len(ConnectedNodes(groom.edges)) < 3 =>
              (gout.points = <<>> /\ gout.spaces = <<>>)
        /\ Len(ConnectedNodes(groom.edges)) >= 3 =>
              /\ Len(gout.points) = Len(ConnectedNodes(groom.edges))
              /\ \A p \in {gout.points[i] : i \in 1..Len(gout.points)} :
                    Cardinality({i \in 1..Len(gout.points) : gout.points[i] = p})
                      = Cardinality({i \in 1..Len(ConnectedNodes(groom.edges)) :
                                        nodes[ConnectedNodes(groom.edges)[i]] = p})
              /\ \A i, j \in 1..Len(gout.points) :
                    i < j => ~AngleLess(FromCentroid(gout.points[j], gout.points),
                                        FromCentroid(gout.points[i], gout.points))
              /\ \A q \in 1..(Len(groom.edges) - 1) :
                    RoomPoints(ConnectedNodes(SwapEdges(groom.edges, q))) = gout.points

\* the level indices of the room that name a storey
DeclaredLevels ==
    {gout.levels[i] : i \in 1..Len(gout.levels)} \cap 0..(Len(elevations) - 1)

SpacesAt(level_idx) == {s \in 1..Len(gout.spaces) : gout.spaces[s].level = level_idx}

\* C18: for a room that has a polygon with a valid, non-empty interior
\* offset there is exactly one Space per distinct level index of the room
\* that names a storey, contained in the storey of that index and placed
\* relative to it at the minimum corner of the polygon; no index has two
\* Spaces, also when the level list repeats it, and none is left without.
\* (The statement of the claim; the code creates a Space for every entry of
\* the level list, repeated or not.)
C18_OneSpacePerRoomAndStorey ==
    (gpc \in {"written", "exported"} /\ gout.points # <<>> /\ groom.offset_valid) =>
        /\ \A level_idx \in DeclaredLevels :
              /\ Cardinality(SpacesAt(level_idx)) = 1
              /\ \A s \in SpacesAt(level_idx) :
                    /\ gout.spaces[s].storey = level_idx + 1
                    /\ gout.spaces[s].rel_to = level_idx + 1
        /\ \A s \in 1..Len(gout.spaces) : gout.spaces[s].level \in DeclaredLevels

\* the world position of a space: its placement on the placement of its
\* storey
WorldPosition(space) ==
    <<space.placement[1], space.placement[2],
      DecAdd(gout.storeys[space.rel_to].elevation, space.placement[3])>>

GWritten == gpc \in {"written", "exported"}

SamePosition(p, q) ==
    \A axis \in 1..3 : ~DecLess(p[axis], q[axis]) /\ ~DecLess(q[axis], p[axis])

\* C24: every Space is placed relative to its storey, at the elevation of
\* its level, with a local translation equal to the minimum corner of the
\* inward-offset polygon of the room, the corner its profile is relative to;
\* the mesh of export_to_glb for the same room and level is at the world
\* position of the Space.
\* (The statement of the claim; the code takes the translation of the Space
\* from the polygon of the room and not from its offset polygon.)
C24_SpaceAndMeshAtSamePosition ==
    GWritten =>
        \A s \in 1..Len(gout.spaces) :
            /\ gout.storeys[gout.spaces[s].rel_to].elevation
                 = elevations[gout.spaces[s].level + 1]
            /\ SamePosition(gout.spaces[s].placement,
                            <<gout.spaces[s].origin[1], gout.spaces[s].origin[2], <<0, 0>>>>)
            /\ gpc = "exported" =>
                  /\ Len(gout.meshes) = Len(gout.spaces)
                  /\ gout.meshes[s].level = gout.spaces[s].level
                  /\ SamePosition(gout.meshes[s].translation,
                                  WorldPosition(gout.spaces[s]))

\* C24 for the rooms whose offset polygon has the minimum corner of the
\* polygon (offset_interior 0)
C24_ZeroOffset ==
    (groom.inset = <<<<0, 0>>, <<0, 0>>>>) => C24_SpaceAndMeshAtSamePosition

\* the level lists a text of the model can denote
IndexLists == UNION {[1..n -> -1..3] : n \in 1..2}

\* the decimal text of a level index
IndexText(n) ==
    IF n < 0 THEN <<"-">> \o <<<<"0", "1", "2", "3">>[1 - n]>>
    ELSE <<<<"0", "1", "2", "3">>[n + 1]>>

RECURSIVE JoinIndices(_)
JoinIndices(list) ==
    IF Len(list) = 1 THEN IndexText(list[1])
    ELSE IndexText(list[1]) \o <<",">> \o JoinIndices(Tail(list))

\* the text is the comma-separated list, with blanks around its numbers
Denotes(text, list) ==
    SelectSeq(text, LAMBDA c : c # " ") = JoinIndices(list)

\* the level list a text declares: the list it denotes, [0] when it
\* denotes none
Declared(text) ==
    IF \E list \in IndexLists : Denotes(text, list)
    THEN CHOOSE list \in IndexLists : Denotes(text, list)
    ELSE <<0>>

InRange(level_idx) == level_idx \in 0..(Len(elevations) - 1)

\* C30: the level list of a room with a table row and a room object is the
\* list of the Levels attribute of the object, [0] when the attribute is
\* absent or no list of integers, whatever the table row declares; the list
\* of the table row is that of a room without room object, which gets no
\* Space; the Spaces of a room are those of the indices of its list that
\* name a storey, and an index out of range produces none.
C30_ObjectLevelsDecide ==
    /\ gpc # "call" =>
          gout.levels = IF groom.has_object THEN Declared(groom.Levels)
                        ELSE Declared(groom.table_levels)
    /\ GWritten =>
          /\ ~groom.has_object => gout.spaces = <<>>
          /\ \A s \in 1..Len(gout.spaces) : InRange(gout.spaces[s].level)
          /\ (gout.points # <<>> /\ groom.offset_valid) =>
                [s \in 1..Len(gout.spaces) |-> gout.spaces[s].level]
                  = SelectSeq(Declared(groom.Levels), InRange)

\* a room whose table row declares level 1 and whose object declares the
\* levels 2 and 3 has its only Space at level 2
C30_Witness ==
    /\ gpc = "written"
    /\ groom.has_object
    /\ groom.table_levels = <<"1">>
    /\ groom.Levels = <<"2", ",", "3">>
    /\ Len(gout.spaces) = 1
    /\ gout.spaces[1].level = 2

\* a room without attribute, with an attribute that is no list, and a room
\* without object
C30_DefaultWitness ==
    /\ gpc = "written"
    /\ groom.has_object
    /\ groom.table_levels = <<"1">>
    /\ groom.Levels = <<"1", ",", "x">>
    /\ Len(gout.spaces) = 1
    /\ gout.spaces[1].level = 0

----------------------------------------------------------------------------
(* Claims about files that fail or are empty                               *)

StoreyNameOf(path) == SplitExtRoot(Basename(path))

\* the key of a file in the storey registry of the exporter
RegistryKey(path) == IF prog = "direct" THEN path ELSE Basename(path)

\* the file of report k failed, or gave no entity and no element record
Omitted(k) == log[k].status # "ok" \/ log[k].content = <<>>

Written == Exited /\ output = "written"

\* C21: a file that fails to parse or to be processed, or that yields no
\* usable element, is left out: the written document has as many Storeys of
\* its name as there are other files of that name that were processed with
\* elements, and the storey registry holds no entry of a file left out.
\* (The statement of the claim; the code creates the Storey of a file that
\* is read and holds no element.)
C21_FailedOrEmptyFileIsOmitted ==
    Written =>
        \A k \in 1..Len(log) :
            /\ Cardinality({s \in Storeys : Ents[s].name = StoreyNameOf(log[k].path)})
                  = Cardinality({j \in 1..Len(log) :
                                    /\ ~Omitted(j)
                                    /\ StoreyNameOf(log[j].path) = StoreyNameOf(log[k].path)})
            /\ Omitted(k) =>
                  \/ ~DictHas(exporter.storeys, RegistryKey(log[k].path))
                  \/ \E j \in 1..Len(log) :
                        ~Omitted(j) /\ RegistryKey(log[j].path) = RegistryKey(log[k].path)

----------------------------------------------------------------------------
(* Claims about malformed items and the order of the applications          *)

\* the value of the item cannot be converted to the number its field takes
Malformed(item) ==
    \/ item.code = 1040 /\ ~item.numeric
    \/ /\ item.code = 1000
       /\ \/ StartsWith(item.s, S_height) /\ ~FloatOk(SplitColon1(item.s))
          \/ StartsWith(item.s, S_solid) /\ ~IntOk(SplitColon1(item.s))
          \/ /\ ~StartsWith(item.s, S_height) /\ ~StartsWith(item.s, S_solid)
             /\ ~StartsWith(item.s, S_Name)
             /\ StartsWith(item.s, S_z) /\ ~FloatOk(SplitColon1(item.s))

WithoutMalformed(xdata) ==
    [g \in 1..Len(xdata) |->
        [xdata[g] EXCEPT !.items = SelectSeq(@, LAMBDA item : ~Malformed(item))]]

\* two dicts hold the same keys with the same values
SameRecord(p, q) == {p[i] : i \in 1..Len(p)} = {q[i] : i \in 1..Len(q)}

\* C22: an item with a malformed value (a height:, solid: or z: string that
\* is no number, a 1040 item whose value cannot be converted) is skipped
\* alone: the decoded record is the one of the stream without its malformed
\* items.
\* (The statement of the claim; a 1040 item that cannot be converted ends
\* the decoding of its application's stream.)
C22_MalformedItemSkippedAlone ==
    DDecoded =>
        SameRecord(dret.props,
                   ExtractXdataProperties([dent EXCEPT !.xdata = WithoutMalformed(@)]))

\* QCAD, then the other application identifiers in their order
QcadFirst(appids) == <<"QCAD">> \o SelectSeq(appids, LAMBDA app_id : app_id # "QCAD")

\* C23: the stream of the application QCAD is decoded before the stream of
\* every other application, wherever QCAD stands in the identifier list of
\* the entity and also when it is not in it: the decoded record is the one
\* obtained with QCAD first.
\* (The statement of the claim; the code scans the identifiers in their
\* order and adds QCAD at the end when it is missing.)
C23_QcadDecodedFirst ==
    (DDecoded /\ dent.has_xdata) =>
        SameRecord(dret.props,
                   SetDefault(SetDefault(DecodeApps(<<>>, dent, QcadFirst(dent.appids), 1),
                                         K_height, FloatVal(DefaultHeight)),
                              K_solid, IntVal(1)))

----------------------------------------------------------------------------
(* Claims about the geometry of circles, arcs and kinds without outline    *)

DProcessed == dpc = "processed"

\* the storey of the file process_dxf_file was called on
DStorey == DictGet(dret.exporter.storeys, F_b3)

\* the entity is materialized: one element, contained in the storey, with a
\* property set, and counted with the wall before it
DMaterialized ==
    /\ Cardinality(DWritten) = 1
    /\ \A e \in DWritten :
          /\ <<DStorey, e>> \in DDoc.contained
          /\ \E q \in 1..Len(DDoc.psets) : DDoc.psets[q].element = e
    /\ dret.exporter.elements_created = 2

\* the rectangle of the bounding box of the entity, in the units of the file
BoundingRectangle ==
    [i \in 1..5 |->
        <<DecMul(<<dent.geom.extmin[1], dent.geom.extmax[1], dent.geom.extmax[1],
                   dent.geom.extmin[1], dent.geom.extmin[1]>>[i], DFactor),
          DecMul(<<dent.geom.extmin[2], dent.geom.extmin[2], dent.geom.extmax[2],
                   dent.geom.extmax[2], dent.geom.extmin[2]>>[i], DFactor)>>]

DUnsupported == dent.dxftype \in {"3DFACE", "3DSOLID", "MESH"}

\* C25: a solid entity of an unsupported kind (3DFACE, 3DSOLID, MESH) is
\* materialized as an element contained in the storey, with a property set,
\* and counted; with a bounding box its representation is the axis-aligned
\* rectangle of the box, without one it has no representation.
\* (The statement of the claim; the code gives no representation to an
\* entity with a bounding box either.)
C25_BoundingRectangleOrNoGeometry ==
    (DProcessed /\ DUnsupported /\ SolidFlag([skip |-> FALSE, xdata |-> dret.props]) # 0) =>
        /\ DMaterialized
        /\ \A e \in DWritten :
              IF "bounding_box" \in dent.attrs
              THEN /\ DDoc.ents[e].rep.type = "Rectangle"
                   /\ DDoc.ents[e].rep.points = BoundingRectangle
              ELSE DDoc.ents[e].rep = NoRep

\* C25 without the entities that have a bounding box
C25_WithoutBoundingBox ==
    "bounding_box" \notin dent.attrs => C25_BoundingRectangleOrNoGeometry

\* C25 without the rectangle: the element of an entity with a bounding box
\* is materialized
C25_Materialized ==
    (DProcessed /\ DUnsupported /\ SolidFlag([skip |-> FALSE, xdata |-> dret.props]) # 0) =>
        DMaterialized

DRound == dent.dxftype \in {"ARC", "CIRCLE"} /\ {"center", "radius"} \subseteq dent.attrs

\* C26: every element and every opening made from an arc with center and
\* radius has a polyline of 17 points, the 16 equal parts of its sweep;
\* every one made from a circle with center and radius has a circle
\* footprint; none is left without representation.
\* (The statement of the claim; the code leaves all of them without.)
C26_ArcsAndCirclesHaveGeometry ==
    (DProcessed /\ DRound) =>
        /\ DWritten \cup DOpenings # {}
        /\ \A e \in DWritten \cup DOpenings :
              /\ DDoc.ents[e].rep # NoRep
              /\ dent.dxftype = "ARC" =>
                    /\ DDoc.ents[e].rep.type = "Polyline"
                    /\ Len(DDoc.ents[e].rep.points) = 17
                    /\ \A k \in 1..17 : DDoc.ents[e].rep.points[k] = <<k - 1, 16>>
              /\ dent.dxftype = "CIRCLE" =>
                    /\ DDoc.ents[e].rep.type = "Circle"
                    /\ DDoc.ents[e].rep.radius = DecMul(dent.geom.radius, DFactor)

\* C26 without the representation: the arc or circle is an element of the
\* storey or an opening of the wall before it
C26_Written ==
    (DProcessed /\ DRound) => DWritten \cup DOpenings # {}

----------------------------------------------------------------------------
(* Claims about the unit of length                                         *)

\* C27: for every unit_system the exporter is constructed with, the unit of
\* length declared in the document agrees with the length factor: METRE
\* exactly when the factor is 1.0, FOOT exactly when it is 3.28084.
\* (The statement of the claim; the code declares FOOT with the factor 1.0
\* for a unit_system that is neither "metric" nor "imperial".)
C27_DeclaredUnitMatchesFactor ==
    DProcessed =>
        /\ DDoc.length_unit \in {"METRE", "FOOT"}
        /\ DDoc.length_unit = "METRE" <=> dret.exporter.length_conversion = <<1, 0>>
        /\ DDoc.length_unit = "FOOT" <=> dret.exporter.length_conversion = <<328084, 5>>

\* C27 for the unit systems "metric" and "imperial"
C27_KnownUnitSystems ==
    dunit \in UnitSystems => C27_DeclaredUnitMatchesFactor

----------------------------------------------------------------------------
(* Claims about the registry of storeys                                    *)

\* the storeys the registry self.storeys holds
RegistryStoreys == {exporter.storeys[i].val : i \in 1..Len(exporter.storeys)}

\* get_summary: the element_count of a storey of the registry
ElementCount(storey) ==
    Cardinality({i \in 1..Len(exporter.elements) :
                    <<storey, exporter.elements[i]>> \in exporter.model.contained})

RECURSIVE SumOfCounts(_)
SumOfCounts(i) ==
    IF i > Len(exporter.storeys) THEN 0
    ELSE ElementCount(exporter.storeys[i].val) + SumOfCounts(i + 1)

\* C28: after any sequence of process_dxf_file or add_storey_from_dxf calls,
\* also with one path given twice, the registry of storeys has as many
\* entries as the document has Storeys, and the element counts the summary
\* gives for the storeys of the registry add up to the total element count.
\* (The statement of the claim; the code keeps one entry per path, or per
\* base name, and a second call for it replaces the entry of the first.)
C28_RegistryMatchesDocument ==
    exporter.model.exists =>
        /\ Len(exporter.storeys) = Cardinality(Storeys)
        /\ prog = "integration" => SumOfCounts(1) = Len(exporter.elements)

\* C28 for the runs whose paths are all different
C28_DistinctPaths ==
    (\A i, j \in 1..Len(argv) : argv[i] = argv[j] => i = j) => C28_RegistryMatchesDocument

----------------------------------------------------------------------------
(* SpecW: watch_folder (process_diagrams.py).  The watcher is one thread:  *)
(* it takes a snapshot of the mtimes, runs scan_and_import, and then polls:*)
(* it sleeps, takes a new snapshot, compares it with the stored one and,   *)
(* when they differ, stores the new one and runs scan_and_import again.    *)
(* The files change beside it at any moment from the first snapshot on: a  *)
(* Diagram.xml is created, modified or deleted, and a created or modified  *)
(* file gets the mtime of the clock, which never goes back.                *)

MaxChanges == 3      \* at most MaxChanges changes of files in a run

\* update_timestamps: the mtime of every Diagram.xml found
UpdateTimestamps == wfiles

\* the comparison of the poll: a path that is new or has another mtime, or a
\* path of the stored snapshot that is gone
Changed(current, stored) ==
    \/ \E file_path \in WPaths :
          /\ current[file_path] # 0
          /\ stored[file_path] = 0 \/ stored[file_path] # current[file_path]
    \/ \E file_path \in WPaths : stored[file_path] # 0 /\ current[file_path] = 0

WInit ==
    /\ XIdle /\ ZIdle /\ DIdle /\ GIdle
    /\ wfiles \in [WPaths -> {0, 1}]
    /\ wclock = 2
    /\ file_timestamps = NoFiles
    /\ current_timestamps = NoFiles
    /\ wpc = "start"
    /\ wprocessed = NoFiles
    /\ wunseen = FALSE
    /\ wdeleted = FALSE

\* file_timestamps = update_timestamps()
WSnapshot ==
    /\ wpc = "start"
    /\ file_timestamps' = UpdateTimestamps
    /\ wpc' = "initial"
    /\ UNCHANGED <<wfiles, wclock, current_timestamps, wprocessed, wunseen, wdeleted,
                   xvars, zvars, dvars, gvars>>

\* the initial scan_and_import
WInitialScan ==
    /\ wpc = "initial"
    /\ wprocessed' = wfiles
    /\ wpc' = "sleep"
    /\ UNCHANGED <<wfiles, wclock, file_timestamps, current_timestamps, wunseen, wdeleted,
                   xvars, zvars, dvars, gvars>>

\* time.sleep(interval); current_timestamps = update_timestamps()
WPoll ==
    /\ wpc = "sleep"
    /\ current_timestamps' = UpdateTimestamps
    /\ wpc' = "check"
    /\ UNCHANGED <<wfiles, wclock, file_timestamps, wprocessed, wunseen, wdeleted,
                   xvars, zvars, dvars, gvars>>

\* changed: file_timestamps = current_timestamps, before scan_and_import
WDetect ==
    /\ wpc = "check"
    /\ Changed(current_timestamps, file_timestamps)
    /\ file_timestamps' = current_timestamps
    /\ wpc' = "reprocess"
    /\ UNCHANGED <<wfiles, wclock, current_timestamps, wprocessed, wunseen, wdeleted,
                   xvars, zvars, dvars, gvars>>

\* not changed: the next turn of the loop
WNoChange ==
    /\ wpc = "check"
    /\ ~Changed(current_timestamps, file_timestamps)
    /\ wpc' = "sleep"
    /\ UNCHANGED <<wfiles, wclock, file_timestamps, current_timestamps, wprocessed,
                   wunseen, wdeleted, xvars, zvars, dvars, gvars>>

\* the scan_and_import of a re-processing pass
WReprocess ==
    /\ wpc = "reprocess"
    /\ wprocessed' = wfiles
    /\ wunseen' = FALSE
    /\ wpc' = "sleep"
    /\ UNCHANGED <<wfiles, wclock, file_timestamps, current_timestamps, wdeleted,
                   xvars, zvars, dvars, gvars>>

\* a Diagram.xml is created or modified
WTouch ==
    /\ wpc \notin {"idle", "start"}
    /\ wclock < 2 + MaxChanges
    /\ \E file_path \in WPaths : wfiles' = [wfiles EXCEPT ![file_path] = wclock]
    /\ wclock' = wclock + 1
    /\ wunseen' = TRUE
    /\ UNCHANGED <<file_timestamps, current_timestamps, wpc, wprocessed, wdeleted,
                   xvars, zvars, dvars, gvars>>

\* a Diagram.xml is deleted
WDelete ==
    /\ wpc \notin {"idle", "start"}
    /\ wclock < 2 + MaxChanges
    /\ \E file_path \in WPaths :
          /\ wfiles[file_path] # 0
          /\ wfiles' = [wfiles EXCEPT ![file_path] = 0]
    /\ wclock' = wclock + 1
    /\ wunseen' = TRUE
    /\ wdeleted' = TRUE
    /\ UNCHANGED <<file_timestamps, current_timestamps, wpc, wprocessed,
                   xvars, zvars, dvars, gvars>>

WWatcher == WSnapshot \/ WInitialScan \/ WPoll \/ WDetect \/ WNoChange \/ WReprocess

WNext == WWatcher \/ WTouch \/ WDelete

\* the loop of the watcher goes on: every sleep ends and every call returns
SpecW == WInit /\ [][WNext]_vars /\ WF_vars(WWatcher)

----------------------------------------------------------------------------
(* Claims about the watch mode                                             *)

\* a poll that finds the files and mtimes of the stored snapshot starts no
\* re-processing and leaves the snapshot as it is
QuietPoll ==
    (wpc = "check" /\ current_timestamps = file_timestamps) =>
        (wpc' # "reprocess" /\ file_timestamps' = file_timestamps /\ wprocessed' = wprocessed)

\* C29: every creation, modification or deletion of a Diagram.xml, also
\* one during the initial scan or during a re-processing pass, is followed
\* by a re-processing pass; and a poll that finds the files and mtimes of the
\* stored snapshot starts no re-processing and leaves the snapshot unchanged.
\* (The statement of the claim; the code starts no pass for a file that is
\* created and deleted again between two snapshots.)
C29_NoChangeIsLost == (wunseen ~> ~wunseen) /\ [][QuietPoll]_vars

\* C29 for the runs without deletion
C29_WithoutDeletion == ((wunseen /\ ~wdeleted) ~> (~wunseen \/ wdeleted)) /\ [][QuietPoll]_vars

\* what the last pass produced is, in the end, what the files are
C29_OutputFollowsFiles == <>[](wpc = "idle" \/ wprocessed = wfiles)

====
